---------------------------- MODULE Spec2Model ----------------------------
(***************************************************************************)
(* The two analytical kernels of the FEniCSx electromagnetic demos:        *)
(*                                                                         *)
(*   - calculate_analytical_efficiencies / compute_a (Mie series of a      *)
(*     wire, analytical_efficiencies_wire),                                *)
(*   - verify_mode / TMx_condition / TEx_condition (half-loaded waveguide, *)
(*     analytical_modes).                                                  *)
(*                                                                         *)
(* Arithmetic.  The code works on IEEE doubles and complex doubles.  The   *)
(* model works on exact integers and Gaussian integers <<re, im>>, and     *)
(* draws every input from the values on which each operation of the code   *)
(* is exact (a division that leaves no remainder, a square root of a       *)
(* perfect square): on these inputs the double arithmetic of the code and  *)
(* the integer arithmetic of the model agree, rounding never enters.       *)
(*                                                                         *)
(* Non-finite values.  A numpy division by zero gives inf or nan and a     *)
(* warning, never an exception.  Every inf and nan is one value here:      *)
(* NonFinite for a complex number, NonFiniteReal for a real one; each      *)
(* operation the code applies to it (+, -, * by a nonzero number, np.real, *)
(* np.abs) gives a non-finite result again.  These values are enumerated   *)
(* only when the state variable "poles" is set (specification SpecPoles);  *)
(* under Spec every value is finite.  A division of two Python numbers by  *)
(* zero raises ZeroDivisionError instead.                                  *)
(*                                                                         *)
(* Units.  np.pi is irrational; every quantity that carries a factor pi    *)
(* is measured in a unit in which np.pi is the integer PiU, so that        *)
(* 2 * np.pi / lmbd0 and n * np.pi / w are integers for the enumerated     *)
(* lengths.                                                                *)
(*                                                                         *)
(* Special functions.  scipy.special.jv, jvp, hankel2, h2vp and np.tan are *)
(* external; their values are not computable here.  Each call of the code  *)
(* reads them from a table "lib" (a function of the order and of the       *)
(* argument the code passes), which the caller action draws from a small   *)
(* set: the library is an arbitrary but deterministic function.            *)
(***************************************************************************)
EXTENDS Integers, Sequences, FiniteSets, TLC

VARIABLES
    pc,          \* which kernel is running / has returned
    args,        \* arguments of the current calculate_analytical_efficiencies call
    m,           \* relative refractive index (complex)
    alpha,       \* size parameter
    c,           \* 2 / alpha
    q_ext,       \* extinction accumulator
    q_sca,       \* scattering accumulator
    nu,          \* loop variable of `for nu in range(1, num_n + 1)`
    a,           \* a[k + 1] = compute_a(k, m, alpha) for the orders evaluated so far
    visited,     \* the values nu took in executed loop bodies, in order
    ca,          \* the latest compute_a call: its table, numerator, denominator, result
    ret,         \* the returned tuple of calculate_analytical_efficiencies
    analyt,      \* the caller's q_abs_analyt, q_sca_analyt, q_ext_analyt
    vm,          \* the latest verify_mode call: arguments, locals, result
    exc,         \* the exception that ended the run, "" while none was raised
    pinned,      \* the current calculate_analytical_efficiencies call reads PinnedLibrary
    history,     \* arguments and returned triple of each completed pinned call
    fenics,      \* the wire demo's numerical efficiencies, errors and check outcome
    poles,       \* whether the inputs that produce non-finite values are enumerated
    vm2,         \* a second evaluation after verify_mode returned: the call with
                 \* -kz, or the two conditions at the other square roots
    eigs,        \* waveguide demo: the converged eigenpairs of the solver, each
                 \* with its eigenvalue and its relative error
    vals,        \* waveguide demo: the list of (i, kz)
    kz_list,     \* waveguide demo: the accepted propagation constants
    it,          \* waveguide demo: how many entries of vals the loop has taken
    sols,        \* waveguide demo: the files written under sols/, in order
    env,         \* wire demos under MPI: the installation and the script that runs
    ranks,       \* wire demos under MPI: the state of the script on each rank
    comm         \* wire demos under MPI: the barrier and the two reductions of
                 \* MPI.COMM_WORLD

\* the post-processing loop of the waveguide demo
loopVars == <<eigs, vals, kz_list, it, sols>>

\* the wire demos on the ranks of MPI.COMM_WORLD
rankVars == <<env, ranks, comm>>

\* the demo scripts around the kernels
scriptVars == <<loopVars, rankVars>>

\* the variables no step of the two kernels assigns
restVars == <<vm2, scriptVars>>

vars == <<pc, args, m, alpha, c, q_ext, q_sca, nu, a, visited, ca, ret, analyt, vm,
          exc, pinned, history, fenics, poles, restVars>>

mieVars == <<args, m, alpha, c, q_ext, q_sca, nu, a, visited, ca, ret, analyt,
            pinned, history, fenics>>

--------------------------------------------------------------------------
(* Bounds of the enumeration.                                              *)

\* largest truncation order a caller passes explicitly
MaxOrder == 2

\* candidate kz has real and imaginary part in -KzMax..KzMax
KzMax == 3

\* square roots are taken of numbers whose root has parts within -RootMax..RootMax
RootMax == 6

\* calls of calculate_analytical_efficiencies repeated with pinned arguments
MaxCalls == 3

--------------------------------------------------------------------------
(* Program constants.                                                      *)

\* np.pi in model units
PiU == 2

\* num_n: int = 50
DefaultNumN == 50

--------------------------------------------------------------------------
(* Complex arithmetic on Gaussian integers <<re, im>>.                     *)

Cx(x) == <<x, 0>>

CAdd(x, y) == <<x[1] + y[1], x[2] + y[2]>>

CSub(x, y) == <<x[1] - y[1], x[2] - y[2]>>

CMul(x, y) == <<x[1] * y[1] - x[2] * y[2], x[1] * y[2] + x[2] * y[1]>>

\* complex times real scalar
CScale(x, r) == <<x[1] * r, x[2] * r>>

AbsSq(x) == x[1] * x[1] + x[2] * x[2]

\* x / r for a real scalar r, exact
CDivRealExact(x, r) == r # 0 /\ x[1] % r = 0 /\ x[2] % r = 0

CDivReal(x, r) == <<x[1] \div r, x[2] \div r>>

\* x / y = x * conj(y) / |y|^2, exact
CDivExact(x, y) ==
    /\ AbsSq(y) # 0
    /\ CDivRealExact(CMul(x, <<y[1], -y[2]>>), AbsSq(y))

CDiv(x, y) == CDivReal(CMul(x, <<y[1], -y[2]>>), AbsSq(y))

\* a complex inf or nan: a tuple of another length than a finite number
NonFinite == <<0, 0, 1>>

IsFinite(x) == Len(x) = 2

\* a real inf or nan: an integer no finite value of the model reaches
NonFiniteReal == 1000000

IsFiniteReal(x) == x # NonFiniteReal

\* x + y, x - y, x * y on numpy floats
FAdd(x, y) == IF IsFiniteReal(x) /\ IsFiniteReal(y) THEN x + y ELSE NonFiniteReal

FSub(x, y) == IF IsFiniteReal(x) /\ IsFiniteReal(y) THEN x - y ELSE NonFiniteReal

FMul(x, y) == IF IsFiniteReal(x) /\ IsFiniteReal(y) THEN x * y ELSE NonFiniteReal

\* np.abs of a float
AbsReal(x) == IF x < 0 THEN -x ELSE x

\* x + y on numpy complex numbers
ComplexAdd(x, y) == IF IsFinite(x) /\ IsFinite(y) THEN CAdd(x, y) ELSE NonFinite

\* x / y on numpy complex numbers: a zero divisor gives inf or nan parts
ComplexDivide(x, y) ==
    IF IsFinite(x) /\ IsFinite(y) /\ y # <<0, 0>> THEN CDiv(x, y) ELSE NonFinite

\* x * y on numpy complex numbers
ComplexMul(x, y) == IF IsFinite(x) /\ IsFinite(y) THEN CMul(x, y) ELSE NonFinite

\* x / r for a numpy complex x and a Python number r: r = 0 gives inf or nan
\* parts and a warning
ComplexDivideReal(x, r) == IF IsFinite(x) /\ r # 0 THEN CDivReal(x, r) ELSE NonFinite

\* np.conj
np_conj(x) == <<x[1], -x[2]>>

\* np.real
np_real(x) == IF IsFinite(x) THEN x[1] ELSE NonFiniteReal

RootRange == (-RootMax)..RootMax

\* the principal square root: real part >= 0; a negative real x (imaginary
\* part +0) has its root on the positive imaginary axis
IsPrincipalRoot(r, x) ==
    /\ CMul(r, r) = x
    /\ \/ r[1] > 0
       \/ r[1] = 0 /\ r[2] >= 0

HasSqrt(x) == \E r \in RootRange \X RootRange : IsPrincipalRoot(r, x)

\* np.sqrt of a complex number whose imaginary part is nonzero or +0
np_sqrt(x) == CHOOSE r \in RootRange \X RootRange : IsPrincipalRoot(r, x)

\* np.sqrt of a complex number whose imaginary part, when it is zero, is -0:
\* the value of np.conj(x) or of -x for an x with imaginary part +0.  The
\* root of a negative real number is then on the negative imaginary axis.
np_sqrt_low(x) ==
    IF x[2] = 0 /\ x[1] < 0 THEN CScale(np_sqrt(x), -1) ELSE np_sqrt(x)

IsAbs(r, x) == r >= 0 /\ r * r = AbsSq(x)

HasAbs(x) == ~IsFinite(x) \/ \E r \in 0..(2 * RootMax) : IsAbs(r, x)

\* np.abs of a complex number (its modulus)
np_abs(x) ==
    IF IsFinite(x) THEN CHOOSE r \in 0..(2 * RootMax) : IsAbs(r, x) ELSE NonFiniteReal

--------------------------------------------------------------------------
(* scipy.special: jv, jvp, hankel2, h2vp.                                  *)
(*                                                                         *)
(* A table lib gives, for one order nu, the value of each of the four      *)
(* functions at each argument compute_a can pass: alpha and m * alpha.     *)

\* the values of one order: <<J(alpha), J(m alpha), J'(alpha), J'(m alpha),
\*                            H(alpha), H(m alpha), H'(alpha), H'(m alpha)>>
SampleSet ==
    {Cx(2), Cx(1)} \X {Cx(-1)} \X {<<0, -1>>, Cx(2)} \X {Cx(1)}
        \X {Cx(-1), <<0, -1>>} \X {Cx(1)} \X {Cx(0), Cx(-1)} \X {Cx(1)}

\* the one table enumerated for the orders 1..50 of a call that leaves the
\* truncation order to its default
TailSample == <<Cx(1), Cx(1), Cx(0), Cx(1), Cx(1), Cx(1), Cx(0), Cx(1)>>

\* the values read by every call that is repeated with identical arguments
PinnedSample(order) ==
    IF order = 0
    THEN <<Cx(1), Cx(-1), Cx(2), Cx(1), Cx(-1), Cx(1), Cx(0), Cx(1)>>
    ELSE <<Cx(1), Cx(-1), Cx(2), Cx(1), <<0, -1>>, Cx(1), Cx(0), Cx(1)>>

\* values with a zero denominator: J(m alpha) and J'(m alpha) both 0 (an
\* underflow: 0 / 0), and H(alpha) + m H'(alpha) = 0 for m = 1 (x / 0);
\* with them one sample whose denominator is not zero
PoleSamples ==
    {<<Cx(1), Cx(0), Cx(1), Cx(0), Cx(1), Cx(1), Cx(1), Cx(1)>>,
     <<Cx(2), Cx(-1), Cx(2), Cx(1), Cx(-1), Cx(1), Cx(1), Cx(1)>>,
     <<Cx(2), Cx(-1), Cx(2), Cx(1), Cx(-1), Cx(1), Cx(-1), Cx(1)>>}

\* the table of the orders 1..50 of such a call when m = 1: alpha and
\* m * alpha are then one argument and each function is read once, so the
\* numerator is J J' - J J' = 0 and the denominator the Wronskian
\* H J' - J H', which is not zero
TailSampleOneArgument == <<Cx(1), Cx(1), Cx(0), Cx(0), Cx(1), Cx(1), Cx(1), Cx(1)>>

Samples(order, mm, given) ==
    IF given \/ order = 0
    THEN (IF poles THEN PoleSamples ELSE SampleSet)
    ELSE (IF mm = Cx(1) THEN {TailSampleOneArgument} ELSE {TailSample})

Pick(key, x1, atX1, atX2) == IF key[2] = x1 THEN atX1 ELSE atX2

Table(order, x1, x2, s) ==
    LET Keys == {<<order, x1>>, <<order, x2>>}
    IN  [jv      |-> [k \in Keys |-> Pick(k, x1, s[1], s[2])],
         jvp     |-> [k \in Keys |-> Pick(k, x1, s[3], s[4])],
         hankel2 |-> [k \in Keys |-> Pick(k, x1, s[5], s[6])],
         h2vp    |-> [k \in Keys |-> Pick(k, x1, s[7], s[8])]]

\* jv(nu, x)
jv(lib, order, x) == lib.jv[<<order, x>>]

\* jvp(nu, x, 1)
jvp(lib, order, x, n) == lib.jvp[<<order, x>>]

\* hankel2(nu, x)
hankel2(lib, order, x) == lib.hankel2[<<order, x>>]

\* h2vp(nu, x, 1)
h2vp(lib, order, x, n) == lib.h2vp[<<order, x>>]

--------------------------------------------------------------------------
(* compute_a                                                               *)

a_nu_num(lib, order, mm, al) ==
    LET J_nu_alpha    == jv(lib, order, Cx(al))
        J_nu_malpha   == jv(lib, order, CScale(mm, al))
        J_nu_alpha_p  == jvp(lib, order, Cx(al), 1)
        J_nu_malpha_p == jvp(lib, order, CScale(mm, al), 1)
    IN  CSub(CMul(J_nu_alpha, J_nu_malpha_p),
             CMul(CMul(mm, J_nu_malpha), J_nu_alpha_p))

\* faulty variant: the Hankel terms read at m * alpha
a_nu_den_HankelAtMAlpha(lib, order, mm, al) ==
    LET J_nu_malpha   == jv(lib, order, CScale(mm, al))
        J_nu_malpha_p == jvp(lib, order, CScale(mm, al), 1)
        H_nu_alpha    == hankel2(lib, order, CScale(mm, al))
        H_nu_alpha_p  == h2vp(lib, order, CScale(mm, al), 1)
    IN  CSub(CMul(H_nu_alpha, J_nu_malpha_p),
             CMul(CMul(mm, J_nu_malpha), H_nu_alpha_p))

a_nu_den(lib, order, mm, al) ==
    LET J_nu_malpha   == jv(lib, order, CScale(mm, al))
        J_nu_malpha_p == jvp(lib, order, CScale(mm, al), 1)
        H_nu_alpha    == hankel2(lib, order, Cx(al))
        H_nu_alpha_p  == h2vp(lib, order, Cx(al), 1)
    IN  CSub(CMul(H_nu_alpha, J_nu_malpha_p),
             CMul(CMul(mm, J_nu_malpha), H_nu_alpha_p))

\* faulty variant: a zero denominator guarded, the coefficient set to 0
compute_a_Guarded(lib, order, mm, al) ==
    IF a_nu_den(lib, order, mm, al) = <<0, 0>>
    THEN Cx(0)
    ELSE CDiv(a_nu_num(lib, order, mm, al), a_nu_den(lib, order, mm, al))

compute_a(lib, order, mm, al) ==
    ComplexDivide(a_nu_num(lib, order, mm, al), a_nu_den(lib, order, mm, al))

\* the tables on which compute_a(order, mm, al) and the np.abs of its result
\* are exact, or the denominator is zero
SpecialTables(order, mm, al, given) ==
    {lib \in {Table(order, Cx(al), CScale(mm, al), s) : s \in Samples(order, mm, given)} :
        \/ poles /\ a_nu_den(lib, order, mm, al) = <<0, 0>>
        \/ /\ CDivExact(a_nu_num(lib, order, mm, al), a_nu_den(lib, order, mm, al))
           /\ HasAbs(compute_a(lib, order, mm, al))}

\* the tables a call reads at one order: the pinned one in a repeated call
LibraryTables(order, mm, al, given, pin) ==
    IF pin
    THEN {Table(order, Cx(al), CScale(mm, al), PinnedSample(order))}
    ELSE SpecialTables(order, mm, al, given)

--------------------------------------------------------------------------
(* calculate_analytical_efficiencies                                       *)

EpsSet == {Cx(4), <<-3, 4>>, <<0, 8>>}

NBkgSet == {1, 2}

\* 0: a physically invalid wavelength
Wl0Set == {0, 4, 8}

\* 0: a physically invalid radius
RadiusSet == {0, 1, 2}

NumNArgs == (-1)..MaxOrder

\* m = np.sqrt(np.conj(eps)) / n_bkg; np.conj turns a zero imaginary part
\* into -0
RelativeIndex(eps, n_bkg) == CDivReal(np_sqrt_low(np_conj(eps)), n_bkg)

\* alpha = 2 * np.pi * radius_wire / wl0 * n_bkg
SizeParameter(radius_wire, wl0, n_bkg) ==
    ((2 * PiU * radius_wire) \div wl0) * n_bkg

\* c = 2 / alpha
Prefactor(al) == 2 \div al

\* x / y on two Python numbers (float or int) raises ZeroDivisionError when
\* y is zero
PyDivRaises(y) == y = 0

\* the inputs on which m is exact
ExactIndex(eps, n_bkg) ==
    /\ HasSqrt(np_conj(eps))
    /\ CDivRealExact(np_sqrt(np_conj(eps)), n_bkg)

\* the inputs on which m, alpha and c are exact
ExactInputs(eps, n_bkg, wl0, radius_wire) ==
    /\ HasSqrt(np_conj(eps))
    /\ CDivRealExact(np_sqrt(np_conj(eps)), n_bkg)
    /\ wl0 # 0
    /\ (2 * PiU * radius_wire) % wl0 = 0
    /\ SizeParameter(radius_wire, wl0, n_bkg) # 0
    /\ 2 % SizeParameter(radius_wire, wl0, n_bkg) = 0

\* faulty variant: the accumulator kept from the previous call
ExtTerm0_Carry(cc, a0) == q_ext + cc * np_real(a0)

\* faulty variant: the order 0 term weighted like the later orders
ExtTerm0_Doubled(cc, a0) == cc * 2 * np_real(a0)

\* q_ext = c * np.real(compute_a(0, m, alpha))
ExtTerm0(cc, a0) == FMul(cc, np_real(a0))

\* q_sca = c * np.abs(compute_a(0, m, alpha))**2
ScaTerm0(cc, a0) == FMul(cc, FMul(np_abs(a0), np_abs(a0)))

\* q_ext += c * 2 * np.real(compute_a(nu, m, alpha))
ExtTerm(cc, a_nu) == FMul(cc * 2, np_real(a_nu))

\* faulty variant: the factor 2 of the orders nu >= 1 dropped
ScaTerm_Single(cc, a_nu) == cc * (np_abs(a_nu) * np_abs(a_nu))

\* q_sca += c * 2 * np.abs(compute_a(nu, m, alpha))**2
ScaTerm(cc, a_nu) == FMul(cc * 2, FMul(np_abs(a_nu), np_abs(a_nu)))

\* faulty variant: range(0, num_n + 1)
RangeStart_Zero == 1 - 1

\* range(1, num_n + 1): the first value
RangeStart == 1

\* faulty variant: range(1, abs(num_n) + 1)
RangeStop_Abs(num_n) == AbsReal(num_n) + 1

\* faulty variant: range(1, num_n)
RangeStop_Short(num_n) == num_n

\* range(1, num_n + 1): the end, excluded
RangeStop(num_n) == num_n + 1

\* faulty variant: absorption as q_ext + q_sca
ReturnTuple_Plus(qe, qs) == <<qe + qs, qs, qe>>

\* faulty variant: scattering returned first
ReturnTuple_Swapped(qe, qs) == <<qs, qe - qs, qe>>

\* return q_ext - q_sca, q_sca, q_ext
ReturnTuple(qe, qs) == <<FSub(qe, qs), qs, qe>>

NoCall == [order |-> -1, lib |-> <<>>, num |-> Cx(0), den |-> Cx(0), result |-> Cx(0)]

CallRecord(lib, order, mm, al) ==
    [order  |-> order,
     lib    |-> lib,
     num    |-> a_nu_num(lib, order, mm, al),
     den    |-> a_nu_den(lib, order, mm, al),
     result |-> compute_a(lib, order, mm, al)]

NoArgs == [eps |-> Cx(0), n_bkg |-> 0, wl0 |-> 0, radius_wire |-> 0,
           num_n |-> 0, given |-> FALSE]

NoVm == [called |-> FALSE]

NoFenics == [checked |-> FALSE]

\* the argument lists of the calls that are repeated
PinnedInputs ==
    {[eps |-> Cx(4), n_bkg |-> 1, wl0 |-> 4, radius_wire |-> 1,
      num_n |-> 2, given |-> TRUE],
     [eps |-> Cx(4), n_bkg |-> 1, wl0 |-> 4, radius_wire |-> 1,
      num_n |-> 0, given |-> TRUE],
     [eps |-> Cx(4), n_bkg |-> 1, wl0 |-> 4, radius_wire |-> 1,
      num_n |-> -1, given |-> TRUE],
     [eps |-> <<-3, 4>>, n_bkg |-> 1, wl0 |-> 4, radius_wire |-> 1,
      num_n |-> 1, given |-> TRUE]}

\* the kernels and the waveguide loop before anything has run; the program
\* counter at the entry "at"
Kernels(at, p) ==
    /\ pc = at
    /\ args = NoArgs
    /\ m = Cx(0)
    /\ alpha = 0
    /\ c = 0
    /\ q_ext = 0
    /\ q_sca = 0
    /\ nu = 0
    /\ a = <<>>
    /\ visited = <<>>
    /\ ca = NoCall
    /\ ret = <<>>
    /\ analyt = <<>>
    /\ vm = NoVm
    /\ exc = ""
    /\ pinned = FALSE
    /\ history = <<>>
    /\ fenics = NoFenics
    /\ poles = p
    /\ vm2 = NoVm
    /\ eigs = <<>>
    /\ vals = <<>>
    /\ kz_list = <<>>
    /\ it = 0
    /\ sols = <<>>

\* nothing has run yet, and no script is running under MPI
Fresh(at, p) ==
    /\ Kernels(at, p)
    /\ env = <<>>
    /\ ranks = <<>>
    /\ comm = <<>>

Init == Fresh("idle", FALSE)

\* the same program, with the inputs that produce non-finite values
InitPoles == Fresh("idle", TRUE)

\* faulty variant: the division by zero gives a value, the call returns
RaiseZeroDivision_Silent ==
    /\ pc' = "mie_returned"
    /\ exc' = ""
    /\ alpha' = 0
    /\ c' = 0
    /\ q_ext' = 0
    /\ q_sca' = 0
    /\ a' = <<>>
    /\ ca' = NoCall
    /\ nu' = 0

\* a ZeroDivisionError leaves the function: the locals assigned so far are
\* dropped with the frame, nothing is returned
RaiseZeroDivision ==
    /\ pc' = "mie_raised"
    /\ exc' = "ZeroDivisionError"
    /\ alpha' = 0
    /\ c' = 0
    /\ q_ext' = 0
    /\ q_sca' = 0
    /\ a' = <<>>
    /\ ca' = NoCall
    /\ nu' = 0

\* the function is entered: lines up to and including the nu = 0 terms
Enter(eps, n_bkg, wl0, radius_wire, given, num, pin) ==
    /\ ExactIndex(eps, n_bkg)
    /\ args' = [eps |-> eps, n_bkg |-> n_bkg, wl0 |-> wl0,
                radius_wire |-> radius_wire,
                num_n |-> IF given THEN num ELSE DefaultNumN,
                given |-> given]
    /\ m' = RelativeIndex(eps, n_bkg)
    /\ pinned' = pin
    /\ visited' = <<>>
    /\ ret' = <<>>
    /\ analyt' = <<>>
    /\ vm' = NoVm
    /\ fenics' = NoFenics
    /\ IF PyDivRaises(wl0)
       THEN RaiseZeroDivision
       ELSE /\ (2 * PiU * radius_wire) % wl0 = 0
            /\ IF PyDivRaises(SizeParameter(radius_wire, wl0, n_bkg))
               THEN RaiseZeroDivision
               ELSE /\ ExactInputs(eps, n_bkg, wl0, radius_wire)
                    /\ LET mm == RelativeIndex(eps, n_bkg)
                           al == SizeParameter(radius_wire, wl0, n_bkg)
                           cc == Prefactor(al)
                       IN  \E lib \in LibraryTables(0, mm, al, given, pin) :
                            /\ alpha' = al
                            /\ c' = cc
                            /\ q_ext' = ExtTerm0(cc, compute_a(lib, 0, mm, al))
                            /\ q_sca' = ScaTerm0(cc, compute_a(lib, 0, mm, al))
                            /\ a' = <<compute_a(lib, 0, mm, al)>>
                            /\ ca' = CallRecord(lib, 0, mm, al)
                    /\ nu' = RangeStart
                    /\ pc' = "mie_loop"
                    /\ exc' = ""

\* the first call of a run
CallEfficiencies ==
    /\ pc = "idle"
    /\ \E eps \in EpsSet, n_bkg \in NBkgSet, wl0 \in Wl0Set,
          radius_wire \in RadiusSet, given \in BOOLEAN, num \in NumNArgs :
        /\ given \/ num = 0
        /\ Enter(eps, n_bkg, wl0, radius_wire, given, num, FALSE)
    /\ UNCHANGED <<history, poles, restVars>>

\* a further call, after the demo's call (the one that leaves the order to
\* its default) or a repeated call has returned
CallAgain ==
    /\ pc \in {"mie_unpacked", "demo_passed"}
    /\ pinned \/ ~args.given
    /\ Len(history) < MaxCalls
    /\ \E k \in PinnedInputs :
        Enter(k.eps, k.n_bkg, k.wl0, k.radius_wire, k.given, k.num_n, TRUE)
    /\ UNCHANGED <<history, poles, restVars>>

\* one execution of the loop body
LoopBody ==
    /\ pc = "mie_loop"
    /\ nu < RangeStop(args.num_n)
    /\ \E lib \in LibraryTables(nu, m, alpha, args.given, pinned) :
        /\ q_ext' = FAdd(q_ext, ExtTerm(c, compute_a(lib, nu, m, alpha)))
        /\ q_sca' = FAdd(q_sca, ScaTerm(c, compute_a(lib, nu, m, alpha)))
        /\ a' = Append(a, compute_a(lib, nu, m, alpha))
        /\ ca' = CallRecord(lib, nu, m, alpha)
    /\ visited' = Append(visited, nu)
    /\ nu' = nu + 1
    /\ UNCHANGED <<pc, args, m, alpha, c, ret, analyt, vm,
                   exc, pinned, history, fenics, poles, restVars>>

\* the range is exhausted: the return statement
Return ==
    /\ pc = "mie_loop"
    /\ ~(nu < RangeStop(args.num_n))
    /\ ret' = ReturnTuple(q_ext, q_sca)
    /\ history' = IF pinned
                  THEN Append(history, [args |-> args, ret |-> ReturnTuple(q_ext, q_sca)])
                  ELSE history
    /\ pc' = "mie_returned"
    /\ UNCHANGED <<args, m, alpha, c, q_ext, q_sca, nu, a, visited, ca, analyt, vm,
                   exc, pinned, fenics, poles, restVars>>

\* q_abs_analyt, q_sca_analyt, q_ext_analyt = calculate_analytical_efficiencies(...)
Unpack ==
    /\ pc = "mie_returned"
    /\ analyt' = [q_abs_analyt |-> ret[1], q_sca_analyt |-> ret[2],
                  q_ext_analyt |-> ret[3]]
    /\ pc' = "mie_unpacked"
    /\ UNCHANGED <<args, m, alpha, c, q_ext, q_sca, nu, a, visited, ca, ret, vm,
                   exc, pinned, history, fenics, poles, restVars>>

--------------------------------------------------------------------------
(* TMx_condition, TEx_condition, verify_mode                               *)
(*                                                                         *)
(* A table lib gives the value of np.tan at each argument the two          *)
(* conditions pass.                                                        *)

KzSet == ((-KzMax)..KzMax) \X ((-KzMax)..KzMax)

\* 0: a physically invalid width
WidthSet == {0, 1, 2}

HeightSet == {2, 3}

\* the dielectric heights passed with the waveguide height h: below h, and
\* with the inputs that produce non-finite values h itself and above h
DielectricHeights(h) == IF poles THEN {h, h + 1} ELSE {1}

\* 0: a physically invalid wavelength
Lmbd0Set == {0, 1, 2, 4}

EpsDSet == {1, 2, 3, 4}

\* the dielectric permittivities passed: with the inputs that produce
\* non-finite values also 0, which makes kx_d / eps_d non-finite
Permittivities == IF poles THEN {0} \cup EpsDSet ELSE EpsDSet

EpsVSet == {1}

ThresholdSet == {0, 1, 2}

TanVals == {Cx(1), Cx(-1), <<0, 1>>, Cx(2)}

\* np.tan(x); the table holds the tangent at the arguments the call passes,
\* and np.tan is odd: np.tan(-x) = -np.tan(x)
np_tan(lib, x) == IF x \in DOMAIN lib THEN lib[x] ELSE CScale(lib[CScale(x, -1)], -1)

\* default rtol of np.isclose is 1e-05 = 1 / RtolInv
RtolInv == 100000

\* faulty variant: a non-finite value compared like a finite one
isclose_NonFinite(x, y, atol) ==
    LET bound == atol + (np_abs(y) \div RtolInv)
    IN  /\ bound >= 0
        /\ AbsSq(CSub(x, y)) <= bound * bound

\* faulty variant: the dielectric term without its cotangent
TEx_condition_Bare(lib, kx_d, kx_v, d, h) ==
    ComplexAdd(kx_d, ComplexDivide(kx_v, np_tan(lib, CScale(kx_v, h - d))))

\* faulty variant: the real and the imaginary part compared one by one
isclose_Componentwise(x, y, atol) ==
    LET bound == atol + (np_abs(y) \div RtolInv)
        diff == CSub(x, y)
    IN  /\ IsFinite(x)
        /\ bound >= 0
        /\ diff[1] * diff[1] <= bound * bound
        /\ diff[2] * diff[2] <= bound * bound

\* np.isclose(x, y, atol=atol): abs(x - y) <= atol + rtol * abs(y), the
\* moduli compared by their squares
isclose(x, y, atol) ==
    LET bound == atol + (np_abs(y) \div RtolInv)
    IN  /\ IsFinite(x)
        /\ bound >= 0
        /\ AbsSq(CSub(x, y)) <= bound * bound

TMx_condition(lib, kx_d, kx_v, eps_d, eps_v, d, h) ==
    ComplexAdd(ComplexMul(ComplexDivideReal(kx_d, eps_d), np_tan(lib, CScale(kx_d, d))),
               ComplexMul(ComplexDivideReal(kx_v, eps_v),
                          np_tan(lib, CScale(kx_v, h - d))))

TEx_condition(lib, kx_d, kx_v, d, h) ==
    ComplexAdd(ComplexDivide(kx_d, np_tan(lib, CScale(kx_d, d))),
               ComplexDivide(kx_v, np_tan(lib, CScale(kx_v, h - d))))

\* k0 = 2 * np.pi / lmbd0
Wavenumber0(lmbd0) == (2 * PiU) \div lmbd0

\* faulty variant: the second harmonic
ModeIndex_Two == 1 + 1

\* n = 1
ModeIndex == 1

\* ky = n * np.pi / w
Ky(n, w) == (n * PiU) \div w

\* faulty variant: ky**2 added
KxDTargetSq_PlusKy(k0, ky, kz, eps_d) ==
    CAdd(CAdd(Cx(k0 * k0 * eps_d + ky * ky), CScale(CMul(kz, kz), -1)), Cx(0))

\* k0**2 * eps_d - ky**2 + - kz**2 + 0j
KxDTargetSq(k0, ky, kz, eps_d) ==
    CAdd(CAdd(Cx(k0 * k0 * eps_d - ky * ky), CScale(CMul(kz, kz), -1)), Cx(0))

\* beta = alpha - k0**2 * (eps_d - eps_v)
Beta(alphaSq, k0, eps_d, eps_v) == CSub(alphaSq, Cx(k0 * k0 * (eps_d - eps_v)))

\* faulty variant: both residuals required
EitherClose_And(f_tm, f_te, threshold) ==
    isclose(f_tm, Cx(0), threshold) /\ isclose(f_te, Cx(0), threshold)

\* np.isclose(f_tm, 0, atol=threshold) or np.isclose(f_te, 0, atol=threshold)
EitherClose(f_tm, f_te, threshold) ==
    isclose(f_tm, Cx(0), threshold) \/ isclose(f_te, Cx(0), threshold)

\* the inputs on which k0, ky and the three square roots are exact
ExactWavenumbers(kz, w, lmbd0, eps_d, eps_v) ==
    /\ lmbd0 # 0 /\ (2 * PiU) % lmbd0 = 0
    /\ w # 0 /\ (ModeIndex * PiU) % w = 0
    /\ LET k0 == Wavenumber0(lmbd0)
           ky == Ky(ModeIndex, w)
       IN  /\ HasSqrt(KxDTargetSq(k0, ky, kz, eps_d))
           /\ LET kx_d_target == np_sqrt(KxDTargetSq(k0, ky, kz, eps_d))
                  alphaSq == CMul(kx_d_target, kx_d_target)
              IN  /\ HasSqrt(alphaSq)
                  /\ HasSqrt(Beta(alphaSq, k0, eps_d, eps_v))

\* faulty variant: a wave travelling backwards (Re kz < 0) is rejected
verify_mode_Forward(lib, kz, w, h, d, lmbd0, eps_d, eps_v, threshold) ==
    LET k0 == Wavenumber0(lmbd0)
        n == ModeIndex
        ky == Ky(n, w)
        kx_d_target == np_sqrt(KxDTargetSq(k0, ky, kz, eps_d))
        alphaSq == CMul(kx_d_target, kx_d_target)
        betaSq == Beta(alphaSq, k0, eps_d, eps_v)
        kx_v == np_sqrt(betaSq)
        kx_d == np_sqrt(alphaSq)
        f_tm == TMx_condition(lib, kx_d, kx_v, eps_d, eps_v, d, h)
        f_te == TEx_condition(lib, kx_d, kx_v, d, h)
    IN  [called |-> TRUE,
         kz |-> kz, w |-> w, h |-> h, d |-> d, lmbd0 |-> lmbd0,
         eps_d |-> eps_d, eps_v |-> eps_v, threshold |-> threshold,
         lib |-> lib,
         k0 |-> k0, n |-> n, ky |-> ky, kx_d_target |-> kx_d_target,
         alpha |-> alphaSq, beta |-> betaSq, kx_v |-> kx_v, kx_d |-> kx_d,
         f_tm |-> f_tm, f_te |-> f_te,
         close_tm |-> isclose(f_tm, Cx(0), threshold),
         close_te |-> isclose(f_te, Cx(0), threshold),
         result |-> kz[1] >= 0 /\ EitherClose(f_tm, f_te, threshold)]

\* the locals of verify_mode(kz, w, h, d, lmbd0, eps_d, eps_v, threshold)
verify_mode(lib, kz, w, h, d, lmbd0, eps_d, eps_v, threshold) ==
    LET k0 == Wavenumber0(lmbd0)
        n == ModeIndex
        ky == Ky(n, w)
        kx_d_target == np_sqrt(KxDTargetSq(k0, ky, kz, eps_d))
        alphaSq == CMul(kx_d_target, kx_d_target)
        betaSq == Beta(alphaSq, k0, eps_d, eps_v)
        kx_v == np_sqrt(betaSq)
        kx_d == np_sqrt(alphaSq)
        f_tm == TMx_condition(lib, kx_d, kx_v, eps_d, eps_v, d, h)
        f_te == TEx_condition(lib, kx_d, kx_v, d, h)
    IN  [called |-> TRUE,
         kz |-> kz, w |-> w, h |-> h, d |-> d, lmbd0 |-> lmbd0,
         eps_d |-> eps_d, eps_v |-> eps_v, threshold |-> threshold,
         lib |-> lib,
         k0 |-> k0, n |-> n, ky |-> ky, kx_d_target |-> kx_d_target,
         alpha |-> alphaSq, beta |-> betaSq, kx_v |-> kx_v, kx_d |-> kx_d,
         f_tm |-> f_tm, f_te |-> f_te,
         close_tm |-> isclose(f_tm, Cx(0), threshold),
         close_te |-> isclose(f_te, Cx(0), threshold),
         result |-> EitherClose(f_tm, f_te, threshold)]

\* np.tan at one argument: exactly 0 at 0, which makes the TEx condition
\* non-finite (an argument enumerated only with the inputs that produce
\* non-finite values), any of TanVals elsewhere
TanValues(x) ==
    IF x = <<0, 0>> THEN (IF poles THEN {Cx(0)} ELSE {}) ELSE TanVals

\* the np.tan tables on which both conditions are exact, or have a zero
\* divisor
TanTables(kz, w, h, d, lmbd0, eps_d, eps_v) ==
    LET k0 == Wavenumber0(lmbd0)
        ky == Ky(ModeIndex, w)
        kx_d == np_sqrt(KxDTargetSq(k0, ky, kz, eps_d))
        kx_v == np_sqrt(Beta(CMul(kx_d, kx_d), k0, eps_d, eps_v))
        x_d == CScale(kx_d, d)
        x_v == CScale(kx_v, h - d)
    IN  {lib \in [{x_d, x_v} -> TanVals \cup {Cx(0)}] :
            /\ lib[x_d] \in TanValues(x_d)
            /\ lib[x_v] \in TanValues(x_v)
            /\ x_v = CScale(x_d, -1) => lib[x_v] = CScale(lib[x_d], -1)
            /\ eps_d = 0 \/ CDivRealExact(kx_d, eps_d)
            /\ CDivRealExact(kx_v, eps_v)
            /\ lib[x_d] = Cx(0) \/ CDivExact(kx_d, lib[x_d])
            /\ lib[x_v] = Cx(0) \/ CDivExact(kx_v, lib[x_v])}

\* k0 = 2 * np.pi / lmbd0 or ky = n * np.pi / w raises
WavenumberRaises(w, lmbd0) == PyDivRaises(lmbd0) \/ PyDivRaises(w)

\* the one argument list enumerated with each invalid width or wavelength
RaisingSample(kz, eps_d, threshold) == kz = Cx(1) /\ eps_d = 2 /\ threshold = 1

\* the caller evaluates the arguments and calls verify_mode
CallVerifyMode ==
    /\ pc = "idle"
    /\ \E kz \in KzSet, w \in WidthSet, h \in HeightSet,
          lmbd0 \in Lmbd0Set, eps_d \in Permittivities, eps_v \in EpsVSet,
          threshold \in ThresholdSet :
        \E d \in DielectricHeights(h) :
        \E lib \in IF WavenumberRaises(w, lmbd0)
                   THEN (IF RaisingSample(kz, eps_d, threshold) THEN {<<>>} ELSE {})
                   ELSE IF ExactWavenumbers(kz, w, lmbd0, eps_d, eps_v)
                        THEN TanTables(kz, w, h, d, lmbd0, eps_d, eps_v)
                        ELSE {} :
            vm' = [called |-> FALSE,
                   kz |-> kz, w |-> w, h |-> h, d |-> d, lmbd0 |-> lmbd0,
                   eps_d |-> eps_d, eps_v |-> eps_v, threshold |-> threshold,
                   lib |-> lib]
    /\ pc' = "vm_called"
    /\ UNCHANGED <<mieVars, exc, poles, restVars>>

\* faulty variant: the residuals divided as Python complex numbers, a zero
\* tangent raises
VerifyMode_PythonComplex ==
    /\ pc = "vm_called"
    /\ IF \/ WavenumberRaises(vm.w, vm.lmbd0)
          \/ \E x \in DOMAIN vm.lib : vm.lib[x] = Cx(0)
       THEN /\ vm' = vm
            /\ exc' = "ZeroDivisionError"
            /\ pc' = "vm_raised"
       ELSE /\ vm' = verify_mode(vm.lib, vm.kz, vm.w, vm.h, vm.d, vm.lmbd0,
                                 vm.eps_d, vm.eps_v, vm.threshold)
            /\ exc' = ""
            /\ pc' = "vm_returned"
    /\ UNCHANGED <<mieVars, poles, restVars>>

\* faulty variant: the local alpha declared global
VerifyMode_GlobalAlpha ==
    /\ pc = "vm_called"
    /\ ~WavenumberRaises(vm.w, vm.lmbd0)
    /\ vm' = verify_mode(vm.lib, vm.kz, vm.w, vm.h, vm.d, vm.lmbd0,
                         vm.eps_d, vm.eps_v, vm.threshold)
    /\ alpha' = vm'.alpha[1]
    /\ pc' = "vm_returned"
    /\ UNCHANGED <<args, m, c, q_ext, q_sca, nu, a, visited, ca, ret, analyt,
                   pinned, history, fenics, exc, poles, restVars>>

\* the body of verify_mode, to its return or to the exception
VerifyMode ==
    /\ pc = "vm_called"
    /\ IF WavenumberRaises(vm.w, vm.lmbd0)
       THEN /\ vm' = vm
            /\ exc' = "ZeroDivisionError"
            /\ pc' = "vm_raised"
       ELSE /\ vm' = verify_mode(vm.lib, vm.kz, vm.w, vm.h, vm.d, vm.lmbd0,
                                 vm.eps_d, vm.eps_v, vm.threshold)
            /\ exc' = ""
            /\ pc' = "vm_returned"
    /\ UNCHANGED <<mieVars, poles, restVars>>

\* verify_mode called once more with the propagation constant negated, the
\* other arguments and the library as in the call that returned
VerifyNegated ==
    /\ pc = "vm_returned"
    /\ vm.called
    /\ vm2' = verify_mode(vm.lib, CScale(vm.kz, -1), vm.w, vm.h, vm.d, vm.lmbd0,
                          vm.eps_d, vm.eps_v, vm.threshold)
    /\ pc' = "vm_negated"
    /\ UNCHANGED <<mieVars, vm, exc, poles, scriptVars>>

\* the square roots np.sqrt does not return
OtherRoots(kx_d, kx_v) ==
    {<<CScale(kx_d, sd), CScale(kx_v, sv)>> : sd \in {1, -1}, sv \in {1, -1}}
        \ {<<kx_d, kx_v>>}

\* the two conditions and the test of the return statement evaluated at
\* another choice of the square roots kx_d and kx_v
VerifyOtherRoots ==
    /\ pc = "vm_returned"
    /\ vm.called
    /\ \E r \in OtherRoots(vm.kx_d, vm.kx_v) :
        LET f_tm == TMx_condition(vm.lib, r[1], r[2], vm.eps_d, vm.eps_v, vm.d, vm.h)
            f_te == TEx_condition(vm.lib, r[1], r[2], vm.d, vm.h)
        IN  vm2' = [called |-> TRUE, kx_d |-> r[1], kx_v |-> r[2],
                    f_tm |-> f_tm, f_te |-> f_te,
                    result |-> EitherClose(f_tm, f_te, vm.threshold)]
    /\ pc' = "vm_flipped"
    /\ UNCHANGED <<mieVars, vm, exc, poles, scriptVars>>

--------------------------------------------------------------------------
(* The final check of the wire demos: the numerical efficiencies against   *)
(* the analytical ones.                                                    *)
(*                                                                         *)
(* The numerical efficiencies come from the finite element solution; they  *)
(* are drawn around the analytical values and measured in units of         *)
(* 1 / ErrTolInv, so that a deviation of exactly 1% is an integer.         *)

\* assert err < 0.01: 0.01 = 1 / ErrTolInv
ErrTolInv == 100

\* the numerical values enumerated for the analytical value x: equal to x,
\* just inside 1%, exactly 1% above, 2% below
FenicsValues(x) ==
    IF IsFiniteReal(x)
    THEN {ErrTolInv * x + dev : dev \in {0, AbsReal(x) - 1, AbsReal(x), -2 * AbsReal(x)}}
    ELSE {0}

\* np.abs(q_analyt - q_fenics) / q_analyt as the fraction <<numerator,
\* denominator>>; a zero denominator is inf or nan
RelativeError(q_analyt, q_fenics) ==
    IF IsFiniteReal(q_analyt)
    THEN <<AbsReal(ErrTolInv * q_analyt - q_fenics), ErrTolInv * q_analyt>>
    ELSE <<0, 0>>

\* err < 0.01 on floats: false for inf and nan
BelowTolerance(err) ==
    IF err[2] > 0 THEN ErrTolInv * err[1] < err[2]
    ELSE IF err[2] < 0 THEN ErrTolInv * err[1] > err[2]
    ELSE FALSE

\* the error calculation and the three asserts
ErrorCheck ==
    /\ pc = "mie_unpacked"
    /\ ~args.given
    /\ \E q_abs_fenics \in FenicsValues(analyt.q_abs_analyt),
          q_sca_fenics \in FenicsValues(analyt.q_sca_analyt) :
        LET q_ext_fenics == q_abs_fenics + q_sca_fenics
            err_abs == RelativeError(analyt.q_abs_analyt, q_abs_fenics)
            err_sca == RelativeError(analyt.q_sca_analyt, q_sca_fenics)
            err_ext == RelativeError(analyt.q_ext_analyt, q_ext_fenics)
            failed == IF ~BelowTolerance(err_abs) THEN 1
                      ELSE IF ~BelowTolerance(err_sca) THEN 2
                      ELSE IF ~BelowTolerance(err_ext) THEN 3
                      ELSE 0
        IN  /\ fenics' = [checked |-> TRUE,
                          q_abs_fenics |-> q_abs_fenics,
                          q_sca_fenics |-> q_sca_fenics,
                          q_ext_fenics |-> q_ext_fenics,
                          err_abs |-> err_abs, err_sca |-> err_sca,
                          err_ext |-> err_ext, failed |-> failed]
            /\ pc' = IF failed = 0 THEN "demo_passed" ELSE "demo_failed"
            /\ exc' = IF failed = 0 THEN "" ELSE "AssertionError"
    /\ UNCHANGED <<args, m, alpha, c, q_ext, q_sca, nu, a, visited, ca, ret, analyt,
                   vm, pinned, history, poles, restVars>>

Next ==
    \/ CallEfficiencies
    \/ CallAgain
    \/ LoopBody
    \/ Return
    \/ Unpack
    \/ ErrorCheck
    \/ CallVerifyMode
    \/ VerifyMode
    \/ VerifyNegated
    \/ VerifyOtherRoots

Spec == Init /\ [][Next]_vars

SpecPoles == InitPoles /\ [][Next]_vars

--------------------------------------------------------------------------
(* The post-processing loop of the half-loaded waveguide demo.             *)
(*                                                                         *)
(* The eigensolver is external: the converged eigenpairs are drawn from a  *)
(* small set.  The loop has its own grid: kz in units of 1 / KzScale, the  *)
(* eigenvalues in units of 1 / KzScale^2, so that kz = sqrt(-eigenvalue)   *)
(* is exact and the guided mode of the demo, kz = 1.30096, has two         *)
(* neighbours on the grid within the threshold of verify_mode.  The        *)
(* relative errors of the solver are measured in units of tol, so that an  *)
(* error exactly at the tolerance is enumerated.  On the grid of kz        *)
(* tol = 1e-9 is less than one unit: an integer is within the tolerance of *)
(* 0 exactly when it is 0.                                                 *)
(*                                                                         *)
(* The constants the demo passes to verify_mode are rational numbers,      *)
(* pairs <<numerator, denominator>>.  At these arguments                   *)
(* the wavenumbers are irrational and the residuals are values of np.sqrt  *)
(* and np.tan in double arithmetic: whether a residual is within the       *)
(* threshold is tabulated for the real kz of PairSet (DemoClose).          *)

\* eigenpairs the solver returns at most
MaxPairs == 3

\* one unit of kz is 1 / KzScale
KzScale == 10000

\* tol = 1e-9 in the unit of the relative errors, 1e-9
Tol == 1

\* tol on the grid of kz: an integer x has abs(x) <= tol exactly when
\* abs(x) <= TolOnGrid
TolOnGrid == (Tol * KzScale) \div 1000000000

\* x * y on rational numbers
FracMul(x, y) == <<x[1] * y[1], x[2] * y[2]>>

\* x / y on rational numbers
FracDiv(x, y) == <<x[1] * y[2], x[2] * y[1]>>

\* the arguments of the verify_mode call of the loop, after kz: w = 1,
\* h = 0.45 * w, d = 0.5 * h, lmbd0 = h / 0.2, eps_d = 2.45, eps_v = 1,
\* threshold=1e-4
DemoGeometry ==
    LET w == <<1, 1>>
        h == FracMul(<<45, 100>>, w)
        d == FracMul(<<5, 10>>, h)
        lmbd0 == FracDiv(h, <<2, 10>>)
    IN  [w |-> w, h |-> h, d |-> d, lmbd0 |-> lmbd0,
         eps_d |-> <<245, 100>>, eps_v |-> <<1, 1>>,
         threshold |-> <<1, 10000>>]

\* eps.getEigenvalue(i) with eps.computeError(i, RELATIVE): kz = 1.3009 and
\* kz = 1.3010, either side of the guided mode; kz = 2, no mode of the
\* guide; kz = 1 + 1j, a complex mode; kz = -2j, an evanescent mode;
\* kz = 1.3009 with the error at the tolerance
PairSet ==
    {[eigenvalue |-> Cx(-(13009 * 13009)), error |-> 0],
     [eigenvalue |-> Cx(-(13010 * 13010)), error |-> 0],
     [eigenvalue |-> Cx(-(4 * KzScale * KzScale)), error |-> 0],
     [eigenvalue |-> <<0, -(2 * KzScale * KzScale)>>, error |-> 0],
     [eigenvalue |-> Cx(4 * KzScale * KzScale), error |-> 0],
     [eigenvalue |-> Cx(-(13009 * 13009)), error |-> Tol]}

\* the largest r in lo..hi with r * r <= n
RECURSIVE RootBetween(_, _, _)
RootBetween(n, lo, hi) ==
    IF lo = hi THEN lo
    ELSE LET mid == (lo + hi + 1) \div 2
         IN  IF mid * mid <= n
             THEN RootBetween(n, mid, hi)
             ELSE RootBetween(n, lo, mid - 1)

\* np.sqrt on the grid of the loop, of a real or an imaginary number whose
\* imaginary part is nonzero or +0: the principal root; 46340 is the
\* largest root whose square the model checker can hold
np_sqrt_grid(x) ==
    IF x[2] = 0
    THEN (IF x[1] >= 0
          THEN <<RootBetween(x[1], 0, 46340), 0>>
          ELSE <<0, RootBetween(-x[1], 0, 46340)>>)
    ELSE LET t == RootBetween(AbsReal(x[2]) \div 2, 0, 46340)
         IN  <<t, IF x[2] > 0 THEN t ELSE -t>>

\* np.sqrt(-eps.getEigenvalue(i)); the negation turns a zero imaginary part
\* into -0, so that a positive eigenvalue (an evanescent mode) gives a kz on
\* the negative imaginary axis
Candidate(eigenvalue) ==
    LET x == CScale(eigenvalue, -1)
    IN  IF x[2] = 0 /\ x[1] < 0
        THEN CScale(np_sqrt_grid(x), -1)
        ELSE np_sqrt_grid(x)

\* list.sort(key=lambda x: x[1].real) is stable: x goes behind every entry
\* whose key is not larger
RECURSIVE InsertByReal(_, _)
InsertByReal(x, sorted) ==
    IF sorted = <<>> THEN <<x>>
    ELSE IF x[2][1] < sorted[1][2][1] THEN <<x>> \o sorted
    ELSE <<sorted[1]>> \o InsertByReal(x, Tail(sorted))

\* faulty variant: the list left in the order of the solver
SortByReal_Unsorted(seq) == seq

RECURSIVE SortByReal(_)
SortByReal(seq) ==
    IF seq = <<>> THEN <<>>
    ELSE InsertByReal(seq[Len(seq)], SortByReal(SubSeq(seq, 1, Len(seq) - 1)))

\* error < tol and np.isclose(kz.imag, 0, atol=tol)
Accepted(error, kz) == error < Tol /\ isclose(Cx(kz[2]), Cx(0), TolOnGrid)

\* np.isclose(f_tm, 0, atol=threshold) and np.isclose(f_te, 0,
\* atol=threshold) in verify_mode at the arguments of the demo, for the
\* real kz of PairSet: f_tm = 5.0e-5 at kz = 1.3009, -3.3e-5 at kz = 1.3010
\* and -0.71 at kz = 2; f_te = 8.6, 8.6 and 8.9
DemoClose(kz) ==
    [tm |-> kz \in {Cx(13009), Cx(13010)},
     te |-> FALSE]

InitLoop == Fresh("wg_start", FALSE)

\* eps.solve(): the solver leaves its converged eigenpairs
Solve ==
    /\ pc = "wg_start"
    /\ \E nconv \in 0..MaxPairs : eigs' \in [1..nconv -> PairSet]
    /\ pc' = "wg_solved"
    /\ UNCHANGED <<mieVars, vm, exc, poles, vm2, vals, kz_list, it, sols, rankVars>>

\* vals = [...]; vals.sort(...); kz_list = []
SortVals ==
    /\ pc = "wg_solved"
    /\ vals' = SortByReal([i \in 1..Len(eigs) |->
                              <<i - 1, Candidate(eigs[i].eigenvalue)>>])
    /\ kz_list' = <<>>
    /\ it' = 0
    /\ pc' = "wg_loop"
    /\ UNCHANGED <<mieVars, vm, exc, poles, vm2, eigs, sols, rankVars>>

\* for i, kz in vals: the next entry, its error, the test of the if, and for
\* an accepted entry kz_list.append(kz) and the call of verify_mode
NextPair ==
    /\ pc = "wg_loop"
    /\ it < Len(vals)
    /\ it' = it + 1
    /\ LET i == vals[it + 1][1]
           kz == vals[it + 1][2]
           error == eigs[i + 1].error
           g == DemoGeometry
       IN  IF Accepted(error, kz)
           THEN /\ kz_list' = Append(kz_list, kz)
                /\ vm' = [called |-> FALSE,
                          kz |-> kz, w |-> g.w, h |-> g.h, d |-> g.d,
                          lmbd0 |-> g.lmbd0, eps_d |-> g.eps_d, eps_v |-> g.eps_v,
                          threshold |-> g.threshold]
                /\ pc' = "vm_called"
           ELSE /\ UNCHANGED <<kz_list, vm, pc>>
    /\ UNCHANGED <<mieVars, exc, poles, vm2, eigs, vals, sols, rankVars>>

\* the body of verify_mode at the arguments of the demo, to its return
VerifyModeDemo ==
    /\ pc = "vm_called"
    /\ vm' = [called |-> TRUE,
              kz |-> vm.kz, w |-> vm.w, h |-> vm.h, d |-> vm.d,
              lmbd0 |-> vm.lmbd0, eps_d |-> vm.eps_d, eps_v |-> vm.eps_v,
              threshold |-> vm.threshold,
              close_tm |-> DemoClose(vm.kz).tm,
              close_te |-> DemoClose(vm.kz).te,
              result |-> DemoClose(vm.kz).tm \/ DemoClose(vm.kz).te]
    /\ pc' = "vm_returned"
    /\ exc' = ""
    /\ UNCHANGED <<mieVars, poles, vm2, loopVars, rankVars>>

\* faulty variant: the assert statement compiled away
AssertWrite_Stripped ==
    /\ pc = "vm_returned"
    /\ sols' = sols \o <<<<"Et", vals[it][1]>>, <<"Ez", vals[it][1]>>>>
    /\ pc' = "wg_loop"
    /\ exc' = ""
    /\ UNCHANGED <<mieVars, vm, poles, vm2, eigs, vals, kz_list, it, rankVars>>

\* assert verify_mode(...), then the two VTXWriter blocks of the entry
AssertWrite ==
    /\ pc = "vm_returned"
    /\ IF vm.result
       THEN /\ sols' = sols \o <<<<"Et", vals[it][1]>>, <<"Ez", vals[it][1]>>>>
            /\ pc' = "wg_loop"
            /\ exc' = ""
       ELSE /\ sols' = sols
            /\ pc' = "wg_aborted"
            /\ exc' = "AssertionError"
    /\ UNCHANGED <<mieVars, vm, poles, vm2, eigs, vals, kz_list, it, rankVars>>

\* vals is exhausted: the script ends
LoopDone ==
    /\ pc = "wg_loop"
    /\ it = Len(vals)
    /\ pc' = "wg_done"
    /\ UNCHANGED <<mieVars, vm, exc, poles, vm2, loopVars, rankVars>>

NextLoop ==
    \/ Solve
    \/ SortVals
    \/ NextPair
    \/ VerifyModeDemo
    \/ AssertWrite
    \/ LoopDone

SpecLoop == InitLoop /\ [][NextLoop]_vars

--------------------------------------------------------------------------
(* The wire demos under MPI.                                               *)
(*                                                                         *)
(* mpirun starts the same script on every rank of MPI.COMM_WORLD.  A rank  *)
(* runs on its own until it enters a call in which it waits for the other  *)
(* ranks (SyncPoints: the distribution of the mesh, the barrier, every     *)
(* construction of a distributed object -- function space, function,       *)
(* expression, form, linear problem --, the update of the ghost values,    *)
(* the linear solve, the two VTX files, the two allreduce calls); it       *)
(* leaves the call once every rank has entered it.  One action is the      *)
(* stretch of the script from leaving one such call to entering the next.  *)
(* In plotter.show() a rank waits too, for nobody but the user: when       *)
(* pyvista is installed and has a screen, the call returns when the window *)
(* is closed.  The finite element solution is external: what a rank        *)
(* integrates over its part of the mesh is drawn from a small set.  The    *)
(* analytical efficiencies are the return value of                         *)
(* calculate_analytical_efficiencies on the constants of the script, the   *)
(* same on every rank; they are drawn once, with the installation.         *)
(*                                                                         *)
(* Of the axisymmetric sphere demo the sources hold the mesh function      *)
(* only: its ranks start at the call of generate_mesh_sphere_axis and stop *)
(* when it returns.  Of the PML demo the sources hold the script but not   *)
(* mesh_wire_pml: what its generate_mesh_wire does on a rank is unknown.   *)

\* the size of MPI.COMM_WORLD
NumRanks == 2

\* MPI.COMM_WORLD.rank of each process
Ranks == 0 .. (NumRanks - 1)

\* a name of the script that is not bound yet
Unset == -1

\* the scripts: scattering boundary conditions, perfectly matched layer,
\* axisymmetric sphere
WireDemos == {"sbc", "pml"}

\* faulty variant: every scalar type passes
issubdtype_complexfloating_Any(scalar_type) == scalar_type \in {"float64", "complex128"}

\* np.issubdtype(PETSc.ScalarType, np.complexfloating)
issubdtype_complexfloating(scalar_type) == scalar_type \in {"complex64", "complex128"}

\* the analytical efficiencies of the wire, in whole units
AnalytSet ==
    {[q_abs_analyt |-> 1, q_sca_analyt |-> 1, q_ext_analyt |-> 2],
     [q_abs_analyt |-> 2, q_sca_analyt |-> 1, q_ext_analyt |-> 3]}

\* the installations and scripts enumerated
Envs ==
    {e \in [demo : WireDemos \cup {"axis"},
            scalar_type : {"float64", "complex128"}, have_gmsh : BOOLEAN,
            have_pyvista : BOOLEAN, off_screen : BOOLEAN, analyt : AnalytSet] :
        /\ e.off_screen => e.have_pyvista
        /\ e.demo = "axis" =>
            /\ e.have_gmsh
            /\ e.have_pyvista
            /\ e.off_screen
            /\ e.scalar_type = "complex128"
            /\ e.analyt.q_abs_analyt = 1}

\* the calls of the wire demos in which a rank waits for the other ranks,
\* in the order of the script; marker = fem.Function(D) is in the PML demo
\* only
SyncPoints ==
    <<"model_to_mesh", "barrier", "FunctionSpace_V", "Function_Eb",
      "FunctionSpace_D", "Function_eps", "scatter_forward", "LinearProblem",
      "solve", "VectorFunctionSpace_V_dg", "Function_Esh_dg", "write_Esh",
      "Function_E", "Function_E_dg", "write_E", "FunctionSpace_V_normEsh",
      "Expression_norm_expr", "Function_normEsh", "Function_marker",
      "form_abs", "allreduce_abs", "form_sca", "allreduce_sca">>

\* if not pyvista.OFF_SCREEN, inside if have_pyvista: plotter.show() is
\* called
Shows == env.have_pyvista /\ ~env.off_screen

\* what a rank integrates over its cells, in units of 1 / ErrTolInv, for
\* the analytical value x: nothing (no cell of the wire on this rank), all
\* of it, all of it and 1% more
LocalValues(x) == {0, ErrTolInv * x, ErrTolInv * x + AbsReal(x)}

\* the mesh function each script imports
MeshFunction(demo) ==
    CASE demo = "sbc" -> "generate_mesh_wire"
      [] demo = "pml" -> "mesh_wire_pml.generate_mesh_wire"
      [] demo = "axis" -> "generate_mesh_sphere_axis"

\* the calls on gmsh.model inside `if MPI.COMM_WORLD.rank == 0:`, in order:
\* the model, the geometry, the physical groups, the mesh sizes, the mesh
BuildSteps(fn) ==
    IF fn = "generate_mesh_wire"
    THEN <<"add nanowire", "occ geometry", "occ.synchronize",
           "addPhysicalGroup x3", "mesh.setSize x4", "mesh.generate(2)">>
    ELSE <<"add geometry", "occ geometry", "occ.synchronize",
           "addPhysicalGroup x4", "mesh.setSize x10", "mesh.generate(2)">>

\* gmsh on a rank before the mesh function is called
NoGmsh == [initialized |-> FALSE, built |-> <<>>, returned |-> ""]

\* faulty variant: the geometry is built on every rank
generate_mesh_EveryRank(fn, rank) ==
    IF fn = "mesh_wire_pml.generate_mesh_wire"
    THEN [initialized |-> TRUE, built |-> <<"unknown">>, returned |-> "unknown"]
    ELSE [initialized |-> TRUE,
          built |-> BuildSteps(fn),
          returned |-> "gmsh.model"]

\* generate_mesh_wire / generate_mesh_sphere_axis on one rank:
\* gmsh.initialize, then the branch of rank 0; a function that ends without
\* a return statement returns None
generate_mesh(fn, rank) ==
    IF fn = "mesh_wire_pml.generate_mesh_wire"
    THEN [initialized |-> TRUE, built |-> <<"unknown">>, returned |-> "unknown"]
    ELSE [initialized |-> TRUE,
          built |-> IF rank = 0 THEN BuildSteps(fn) ELSE <<>>,
          returned |-> IF rank = 0 THEN "gmsh.model" ELSE "None"]

\* the sum of the values f[r], r in S
RECURSIVE SumOver(_, _)
SumOver(f, S) ==
    IF S = {} THEN 0
    ELSE LET r == CHOOSE x \in S : TRUE
         IN  f[r] + SumOver(f, S \ {r})

\* faulty variant: every rank keeps its own value
allreduce_Local(sendobj, rank) == sendobj[rank]

\* comm.allreduce(value, op=MPI.SUM) as rank "rank" receives it, sendobj[r]
\* the value rank r passed
allreduce(sendobj, rank) == SumOver(sendobj, Ranks)

\* the script on one rank before its first statement
StartRank(demo) ==
    [pc |-> IF demo = "axis" THEN "configured" ELSE "start",
     out |-> <<>>,
     status |-> Unset,
     gmsh |-> NoGmsh,
     solved |-> FALSE,
     analyt |-> <<>>,
     q_abs_fenics_proc |-> Unset,
     q_abs_fenics |-> Unset,
     q_sca_fenics_proc |-> Unset,
     q_sca_fenics |-> Unset,
     failed |-> Unset]

\* nobody has entered a call of SyncPoints; abs and sca hold what each rank
\* passed to the two allreduce calls
IdleComm ==
    [entered |-> [p \in {SyncPoints[k] : k \in DOMAIN SyncPoints} |-> {}],
     abs |-> [r \in Ranks |-> Unset],
     sca |-> [r \in Ranks |-> Unset]]

InitRanks ==
    /\ Kernels("ranks", FALSE)
    /\ env \in Envs
    /\ ranks = [r \in Ranks |-> StartRank(env.demo)]
    /\ comm = IdleComm

\* print(notice); sys.exit(0) / exit(0)
ExitWith(rank, notice) ==
    [rank EXCEPT !.pc = "exited", !.out = Append(@, notice), !.status = 0]

\* the import cell: try: import gmsh / except ModuleNotFoundError: the
\* notice and sys.exit(0); try: import pyvista / except ModuleNotFoundError:
\* the notice, and the script goes on
Import(r) ==
    /\ ranks[r].pc = "start"
    /\ ranks' = [ranks EXCEPT ![r] =
           IF ~env.have_gmsh
           THEN ExitWith(@, "This demo requires gmsh to be installed")
           ELSE [@ EXCEPT
                   !.pc = "imported",
                   !.out = IF env.have_pyvista THEN @
                           ELSE Append(@, "pyvista and pyvistaqt are required to visualise the solution")]]
    /\ UNCHANGED <<pc, mieVars, vm, exc, poles, vm2, loopVars, env, comm>>

\* if not np.issubdtype(PETSc.ScalarType, np.complexfloating)
Guard(r) ==
    /\ ranks[r].pc = "imported"
    /\ ranks' = [ranks EXCEPT ![r] =
           IF issubdtype_complexfloating(env.scalar_type)
           THEN [@ EXCEPT !.pc = "configured"]
           ELSE ExitWith(@, "Demo should only be executed with DOLFINx complex mode")]
    /\ UNCHANGED <<pc, mieVars, vm, exc, poles, vm2, loopVars, env, comm>>

\* model = generate_mesh_wire(...) / generate_mesh_sphere_axis(...)
GenerateMesh(r) ==
    /\ ranks[r].pc = "configured"
    /\ ranks' = [ranks EXCEPT ![r] =
           [@ EXCEPT !.pc = "meshed",
                     !.gmsh = generate_mesh(MeshFunction(env.demo), r)]]
    /\ UNCHANGED <<pc, mieVars, vm, exc, poles, vm2, loopVars, env, comm>>

\* what the stretches of the script leave alone
RankFrame == UNCHANGED <<pc, mieVars, vm, exc, poles, vm2, loopVars, env>>

\* the call "point" has let rank r go: every rank has entered it
Left(r, point) ==
    /\ ranks[r].pc = point
    /\ comm.entered[point] = Ranks

\* rank r, its names bound as in "rank", enters the call "point"
EnterCall(r, rank, point) ==
    /\ ranks' = [ranks EXCEPT ![r] = [rank EXCEPT !.pc = point]]
    /\ comm' = [comm EXCEPT !.entered[point] = @ \cup {r}]

\* the rank enters model_to_mesh(model, MPI.COMM_WORLD, 0, gdim=2), in which
\* the mesh of rank 0 is distributed over the ranks
ModelToMesh(r) ==
    /\ ranks[r].pc = "meshed"
    /\ env.demo \in WireDemos
    /\ EnterCall(r, ranks[r], "model_to_mesh")
    /\ RankFrame

\* model_to_mesh returns; gmsh.finalize(); the rank enters
\* MPI.COMM_WORLD.barrier()
Finalize(r) ==
    /\ Left(r, "model_to_mesh")
    /\ EnterCall(r, [ranks[r] EXCEPT !.gmsh.initialized = FALSE], "barrier")
    /\ RankFrame

\* the call after "point" in the script
After(point) ==
    SyncPoints[(CHOOSE k \in DOMAIN SyncPoints : SyncPoints[k] = point) + 1]

\* the calls after which the script plots, with the name of the plot: the
\* mesh after the barrier, the scattered field after Esh.bp is written
Plots == {<<"barrier", "show_mesh">>, <<"write_Esh", "show_Esh">>}

\* the call lets the rank go; the plot, with a screen: plotter.show() opens
\* the window and the rank waits in it
Show(r) ==
    /\ \E plot \in Plots :
        /\ Left(r, plot[1])
        /\ Shows
        /\ ranks' = [ranks EXCEPT ![r] = [@ EXCEPT !.pc = plot[2]]]
    /\ UNCHANGED comm
    /\ RankFrame

\* the window is closed, or there was none (no pyvista: the block is
\* skipped; no screen: the screenshot); the rank enters the next call:
\* V = fem.FunctionSpace(domain, curl_el) after the plot of the mesh,
\* E = fem.Function(V) after the plot of the scattered field
AfterPlot(r) ==
    /\ \E plot \in Plots :
        /\ \/ ranks[r].pc = plot[2]
           \/ Left(r, plot[1]) /\ ~Shows
        /\ EnterCall(r, ranks[r], After(plot[1]))
    /\ RankFrame

\* the calls from which a rank goes on to the next call of SyncPoints with
\* nothing bound that the model tracks: Eb = fem.Function(V) after V;
\* Eb.interpolate(...) and D = fem.FunctionSpace(...); eps = fem.Function(D);
\* the permittivity of the local cells and eps.x.scatter_forward(); the weak
\* form and fem.petsc.LinearProblem(...); problem.solve();
\* Esh_dg = fem.Function(V_dg) after V_dg; Esh_dg.interpolate(Esh) and the
\* VTXWriter block of Esh.bp; E_dg = fem.Function(V_dg) after E;
\* E_dg.interpolate(E) and the VTXWriter block of E.bp;
\* V_normEsh = fem.FunctionSpace(...); norm_expr = fem.Expression(...);
\* normEsh = fem.Function(V_normEsh)
PlainStretches ==
    {"FunctionSpace_V", "Function_Eb", "FunctionSpace_D", "Function_eps",
     "scatter_forward", "LinearProblem", "VectorFunctionSpace_V_dg",
     "Function_Esh_dg", "Function_E", "Function_E_dg", "write_E",
     "FunctionSpace_V_normEsh", "Expression_norm_expr"}

\* the call lets the rank go and the rank enters the next one
NextCall(r) ==
    /\ \E point \in PlainStretches :
        /\ Left(r, point)
        /\ EnterCall(r, ranks[r], After(point))
    /\ RankFrame

\* Esh = problem.solve() returns; V_dg = fem.VectorFunctionSpace(...)
VectorFunctionSpace(r) ==
    /\ Left(r, "solve")
    /\ EnterCall(r, [ranks[r] EXCEPT !.solved = TRUE], "VectorFunctionSpace_V_dg")
    /\ RankFrame

\* PML demo: normEsh.interpolate(norm_expr);
\* calculate_analytical_efficiencies(...); marker = fem.Function(D)
FunctionMarker(r) ==
    /\ env.demo = "pml"
    /\ Left(r, "Function_normEsh")
    /\ EnterCall(r, [ranks[r] EXCEPT !.analyt = env.analyt], "Function_marker")
    /\ RankFrame

\* the rank enters fem.form(Q * dAu); in the SBC demo straight after
\* normEsh.interpolate(norm_expr) and calculate_analytical_efficiencies(...)
FormAbs(r) ==
    /\ Left(r, IF env.demo = "pml" THEN "Function_marker" ELSE "Function_normEsh")
    /\ EnterCall(r, [ranks[r] EXCEPT !.analyt = env.analyt], "form_abs")
    /\ RankFrame

\* the form is compiled; fem.assemble_scalar over the cells of the rank;
\* the rank enters the first allreduce
AssembleAbs(r) ==
    /\ Left(r, "form_abs")
    /\ \E q_abs_fenics_proc \in LocalValues(env.analyt.q_abs_analyt) :
        /\ ranks' = [ranks EXCEPT ![r] =
               [@ EXCEPT !.pc = "allreduce_abs",
                         !.q_abs_fenics_proc = q_abs_fenics_proc]]
        /\ comm' = [comm EXCEPT !.entered["allreduce_abs"] = @ \cup {r},
                                !.abs[r] = q_abs_fenics_proc]
    /\ RankFrame

\* the first allreduce returns once every rank has entered it; the rank
\* enters the fem.form of the scattering integral
AllreduceAbs(r) ==
    /\ Left(r, "allreduce_abs")
    /\ EnterCall(r, [ranks[r] EXCEPT !.q_abs_fenics = allreduce(comm.abs, r)],
                 "form_sca")
    /\ RankFrame

\* the form is compiled; fem.assemble_scalar over the facets of the rank;
\* the rank enters the second allreduce
AssembleSca(r) ==
    /\ Left(r, "form_sca")
    /\ \E q_sca_fenics_proc \in LocalValues(env.analyt.q_sca_analyt) :
        /\ ranks' = [ranks EXCEPT ![r] =
               [@ EXCEPT !.pc = "allreduce_sca",
                         !.q_sca_fenics_proc = q_sca_fenics_proc]]
        /\ comm' = [comm EXCEPT !.entered["allreduce_sca"] = @ \cup {r},
                                !.sca[r] = q_sca_fenics_proc]
    /\ RankFrame

\* err * 100 of the fraction err
Percent(err) == <<100 * err[1], err[2]>>

\* the twelve print calls of rank 0; a line of an f-string is the tuple of
\* its text and its values
Report(q_analyt, q_fenics, err) ==
    <<"",
      <<"The analytical absorption efficiency is ", q_analyt[1]>>,
      <<"The numerical absorption efficiency is ", q_fenics[1]>>,
      <<"The error is ", Percent(err[1]), "%">>,
      "",
      <<"The analytical scattering efficiency is ", q_analyt[2]>>,
      <<"The numerical scattering efficiency is ", q_fenics[2]>>,
      <<"The error is ", Percent(err[2]), "%">>,
      "",
      <<"The analytical extinction efficiency is ", q_analyt[3]>>,
      <<"The numerical extinction efficiency is ", q_fenics[3]>>,
      <<"The error is ", Percent(err[3]), "%">>>>

\* the second allreduce returns; the error calculation, the three asserts
\* and the report of rank 0: after the asserts in the SBC demo, before them
\* in the PML demo
AllreduceSca(r) ==
    /\ Left(r, "allreduce_sca")
    /\ LET q_abs_analyt == ranks[r].analyt.q_abs_analyt
           q_sca_analyt == ranks[r].analyt.q_sca_analyt
           q_ext_analyt == ranks[r].analyt.q_ext_analyt
           q_abs_fenics == ranks[r].q_abs_fenics
           q_sca_fenics == allreduce(comm.sca, r)
           q_ext_fenics == q_abs_fenics + q_sca_fenics
           err_abs == RelativeError(q_abs_analyt, q_abs_fenics)
           err_sca == RelativeError(q_sca_analyt, q_sca_fenics)
           err_ext == RelativeError(q_ext_analyt, q_ext_fenics)
           failed == IF ~BelowTolerance(err_abs) THEN 1
                     ELSE IF ~BelowTolerance(err_sca) THEN 2
                     ELSE IF ~BelowTolerance(err_ext) THEN 3
                     ELSE 0
           reports == r = 0 /\ (env.demo = "pml" \/ failed = 0)
       IN  ranks' = [ranks EXCEPT ![r] =
               [@ EXCEPT !.pc = "exited",
                         !.q_sca_fenics = q_sca_fenics,
                         !.failed = failed,
                         !.out = IF reports
                                 THEN @ \o Report(
                                     <<q_abs_analyt, q_sca_analyt, q_ext_analyt>>,
                                     <<q_abs_fenics, q_sca_fenics, q_ext_fenics>>,
                                     <<err_abs, err_sca, err_ext>>)
                                 ELSE @,
                         !.status = IF failed = 0 THEN 0 ELSE 1]]
    /\ UNCHANGED <<pc, mieVars, vm, exc, poles, vm2, loopVars, env, comm>>

NextRanks ==
    \E r \in Ranks :
        \/ Import(r)
        \/ Guard(r)
        \/ GenerateMesh(r)
        \/ ModelToMesh(r)
        \/ Finalize(r)
        \/ Show(r)
        \/ AfterPlot(r)
        \/ NextCall(r)
        \/ VectorFunctionSpace(r)
        \/ FunctionMarker(r)
        \/ FormAbs(r)
        \/ AssembleAbs(r)
        \/ AllreduceAbs(r)
        \/ AssembleSca(r)
        \/ AllreduceSca(r)

SpecRanks == InitRanks /\ [][NextRanks]_vars

--------------------------------------------------------------------------
(* Properties of calculate_analytical_efficiencies.                        *)

MieReturned == pc \in {"mie_returned", "mie_unpacked"}

\* sum of Re a_k over the orders lo..hi, a_k = coeffs[k + 1]
RECURSIVE SumRe(_, _, _)
SumRe(coeffs, lo, hi) ==
    IF lo > hi THEN 0 ELSE coeffs[lo + 1][1] + SumRe(coeffs, lo + 1, hi)

\* sum of |a_k|^2 over the orders lo..hi
RECURSIVE SumAbsSq(_, _, _)
SumAbsSq(coeffs, lo, hi) ==
    IF lo > hi THEN 0 ELSE AbsSq(coeffs[lo + 1]) + SumAbsSq(coeffs, lo + 1, hi)

\* alpha * q_ext of the series truncated at max_order
AlphaQExt(coeffs, max_order) == 2 * (coeffs[1][1] + 2 * SumRe(coeffs, 1, max_order))

\* alpha * q_sca of the series truncated at max_order
AlphaQSca(coeffs, max_order) ==
    2 * (AbsSq(coeffs[1]) + 2 * SumAbsSq(coeffs, 1, max_order))

\* C1: whenever calculate_analytical_efficiencies has returned, the returned
\* extinction efficiency equals the returned absorption efficiency plus the
\* returned scattering efficiency.
C1_ExtinctionIsAbsorptionPlusScattering ==
    MieReturned => ret[3] = ret[1] + ret[2]

C1_Witness ==
    /\ pc = "mie_returned"
    /\ args.num_n >= 1
    /\ ret[1] # 0
    /\ ret[2] # 0
    /\ ret[1] # ret[2]

\* C3: the returned extinction efficiency is (2 / alpha) times
\* Re a_0 + 2 * (sum of Re a_nu for nu = 1..max_order): weight 1 for the
\* order 0 and weight 2 for every later order.
C3_ExtinctionSeries ==
    MieReturned =>
        /\ Len(a) >= args.num_n + 1
        /\ alpha * ret[3] = AlphaQExt(a, args.num_n)

C3_Witness ==
    /\ pc = "mie_returned"
    /\ args.num_n = 2
    /\ a[1][1] # 0
    /\ a[2][1] # 0
    /\ a[3][1] # 0
    /\ a[2][1] # a[3][1]

\* C4: the returned scattering efficiency is (2 / alpha) times
\* |a_0|^2 + 2 * (sum of |a_nu|^2 for nu = 1..max_order).
C4_ScatteringSeries ==
    MieReturned =>
        /\ Len(a) >= args.num_n + 1
        /\ alpha * ret[2] = AlphaQSca(a, args.num_n)

C4_Witness ==
    /\ pc = "mie_returned"
    /\ args.num_n = 2
    /\ a[1][1] # 0 /\ a[1][2] # 0
    /\ AbsSq(a[2]) > 1
    /\ AbsSq(a[3]) > 1
    /\ AbsSq(a[2]) # AbsSq(a[3])

\* C5: every compute_a(nu, m, alpha) returns numerator / denominator with
\*   numerator   = J_nu(alpha) J'_nu(m alpha) - m J_nu(m alpha) J'_nu(alpha)
\*   denominator = H_nu(alpha) J'_nu(m alpha) - m J_nu(m alpha) H'_nu(alpha),
\* the Bessel values read at alpha and m * alpha, the Hankel values at alpha.
C5_CoefficientFormula ==
    ca.order >= 0 =>
        LET x_alpha  == <<ca.order, <<alpha, 0>>>>
            x_malpha == <<ca.order, <<m[1] * alpha, m[2] * alpha>>>>
            numerator ==
                CSub(CMul(ca.lib.jv[x_alpha], ca.lib.jvp[x_malpha]),
                     CMul(m, CMul(ca.lib.jv[x_malpha], ca.lib.jvp[x_alpha])))
            denominator ==
                CSub(CMul(ca.lib.hankel2[x_alpha], ca.lib.jvp[x_malpha]),
                     CMul(m, CMul(ca.lib.jv[x_malpha], ca.lib.h2vp[x_alpha])))
        IN  /\ denominator # <<0, 0>>
            /\ CMul(ca.result, denominator) = numerator
            /\ a[ca.order + 1] = ca.result

C5_Witness ==
    /\ ca.order >= 1
    /\ m[2] # 0
    /\ ca.lib.h2vp[<<ca.order, <<alpha, 0>>>>] # <<0, 0>>
    /\ ca.lib.jvp[<<ca.order, <<alpha, 0>>>>] # <<0, 0>>
    /\ ca.lib.hankel2[<<ca.order, <<alpha, 0>>>>][2] # 0
    /\ ca.result # <<0, 0>>

\* C6: the returned tuple is (absorption, scattering, extinction) in this
\* order, absorption being extinction minus scattering, and the caller's
\* q_abs_analyt, q_sca_analyt, q_ext_analyt hold the values of the same names.
C6_ReturnOrder ==
    /\ MieReturned =>
        /\ alpha * ret[1] = AlphaQExt(a, args.num_n) - AlphaQSca(a, args.num_n)
        /\ alpha * ret[2] = AlphaQSca(a, args.num_n)
        /\ alpha * ret[3] = AlphaQExt(a, args.num_n)
    /\ pc = "mie_unpacked" =>
        /\ analyt.q_abs_analyt = q_ext - q_sca
        /\ analyt.q_sca_analyt = q_sca
        /\ analyt.q_ext_analyt = q_ext

C6_Witness ==
    /\ pc = "mie_unpacked"
    /\ analyt.q_abs_analyt # analyt.q_sca_analyt
    /\ analyt.q_abs_analyt # analyt.q_ext_analyt
    /\ analyt.q_sca_analyt # analyt.q_ext_analyt
    /\ analyt.q_abs_analyt # 0

UpTo(k) == [j \in 1..k |-> j]

NonNeg(k) == IF k < 0 THEN 0 ELSE k

\* C9: the loop body runs for nu = 1, 2, ..., max_order, each once and in
\* ascending order, whatever the coefficients are: every step of a running
\* call either executes the body for the next order, while orders remain, or
\* returns, once none remains (at most max_order bodies, then the return);
\* without an order argument max_order is 50.
C9_FixedOrderTruncation ==
    /\ [](pc \in {"mie_loop", "mie_returned", "mie_unpacked"} =>
            /\ ~args.given => args.num_n = 50
            /\ visited = UpTo(Len(visited))
            /\ Len(visited) <= NonNeg(args.num_n)
            /\ Len(a) = Len(visited) + 1
            /\ MieReturned => Len(visited) = NonNeg(args.num_n))
    /\ [][pc = "mie_loop" =>
            \/ /\ pc' = "mie_loop"
               /\ Len(visited) < NonNeg(args.num_n)
               /\ visited' = Append(visited, Len(visited) + 1)
            \/ /\ pc' = "mie_returned"
               /\ Len(visited) = NonNeg(args.num_n)
               /\ visited' = visited]_vars

C9_Witness ==
    /\ pc = "mie_returned"
    /\ ~args.given
    /\ Len(visited) = 50
    /\ a[1] # a[2]

\* C10: with max_order = 0 the loop body is never executed and the result
\* is made of the order 0 coefficient alone: q_ext = (2 / alpha) Re a_0 and
\* q_sca = (2 / alpha) |a_0|^2.
C10_OrderZero ==
    MieReturned /\ args.num_n = 0 =>
        /\ visited = <<>>
        /\ Len(a) = 1
        /\ alpha * ret[3] = 2 * a[1][1]
        /\ alpha * ret[2] = 2 * AbsSq(a[1])

C10_Witness ==
    /\ pc = "mie_returned"
    /\ args.num_n = 0
    /\ a[1][1] # 0
    /\ a[1][2] # 0

MieEntered ==
    pc \in {"mie_loop", "mie_returned", "mie_unpacked", "mie_raised",
            "demo_passed", "demo_failed"}

\* C11: calculate_analytical_efficiencies keeps no state between calls: any
\* two completed calls with identical arguments, whatever was called before
\* and between them, returned identical triples.
C11_RepeatedCallsAgree ==
    \A i \in DOMAIN history : \A j \in DOMAIN history :
        history[i].args = history[j].args => history[i].ret = history[j].ret

C11_Witness ==
    /\ pc = "mie_returned"
    /\ Len(history) = 3
    /\ history[1].args = history[3].args
    /\ history[2].args # history[1].args
    /\ history[2].ret # history[1].ret
    /\ history[3].ret[3] # 0

\* the arguments of a call other than the truncation order
OtherArgs(k) == <<k.eps, k.n_bkg, k.wl0, k.radius_wire>>

\* C26: a negative truncation order is accepted silently: the call raises
\* nothing, runs no loop body, and returns exactly the triple the call with
\* the same other arguments and max_order = 0 returns.
C26_NegativeOrderAsZero ==
    /\ (MieEntered /\ args.num_n < 0 /\ args.wl0 # 0 /\ args.radius_wire # 0) =>
            /\ pc # "mie_raised"
            /\ exc = ""
            /\ visited = <<>>
            /\ Len(a) = 1
    /\ \A i \in DOMAIN history : \A j \in DOMAIN history :
            (/\ history[i].args.num_n < 0
             /\ history[j].args.num_n = 0
             /\ OtherArgs(history[i].args) = OtherArgs(history[j].args)) =>
                history[i].ret = history[j].ret

C26_Witness ==
    /\ pc = "mie_returned"
    /\ args.num_n < 0
    /\ Len(history) = 2
    /\ history[1].args.num_n = 0
    /\ history[2].args.num_n < 0
    /\ history[2].ret = history[1].ret
    /\ history[2].ret[2] # 0
    /\ history[2].ret[3] # 0

\* C13 as claimed: a call with wavelength = 0 or radius = 0 raises no
\* exception; it completes and returns non-finite values.
C13_InvalidInputsComplete ==
    MieEntered /\ (args.wl0 = 0 \/ args.radius_wire = 0) =>
        /\ exc = ""
        /\ pc # "mie_raised"
        /\ MieReturned =>
                ret = <<NonFiniteReal, NonFiniteReal, NonFiniteReal>>

\* C13, amended: a call with wavelength = 0 or radius = 0, given as Python
\* numbers, raises ZeroDivisionError (at alpha = ... / wl0, or at
\* c = 2 / alpha) before any special function is evaluated, and returns
\* nothing; no other enumerated call raises.
C13_InvalidInputsRaise ==
    MieEntered =>
        /\ (args.wl0 = 0 \/ args.radius_wire = 0) =>
                /\ pc = "mie_raised"
                /\ exc = "ZeroDivisionError"
                /\ ret = <<>>
                /\ a = <<>>
                /\ ca = NoCall
        /\ pc = "mie_raised" => (args.wl0 = 0 \/ args.radius_wire = 0)

C13_Witness ==
    /\ pc = "mie_raised"
    /\ args.radius_wire = 0
    /\ args.wl0 # 0
    /\ exc = "ZeroDivisionError"

\* C15: a zero denominator of a Mie coefficient is not guarded and raises
\* nothing: compute_a returns a non-finite value, and every efficiency
\* calculate_analytical_efficiencies then returns is non-finite.
C15_ZeroDenominatorPropagates ==
    /\ (ca.order >= 0 /\ ca.den = <<0, 0>>) =>
            /\ ca.result = NonFinite
            /\ a[ca.order + 1] = NonFinite
            /\ pc # "mie_raised"
            /\ exc # "ZeroDivisionError"
    /\ (MieReturned /\ \E k \in DOMAIN a : a[k] = NonFinite) =>
            /\ ret = <<NonFiniteReal, NonFiniteReal, NonFiniteReal>>
            /\ exc = ""
    /\ (pc = "mie_loop" /\ \E k \in DOMAIN a : a[k] = NonFinite) =>
            /\ q_ext = NonFiniteReal
            /\ q_sca = NonFiniteReal

C15_Witness ==
    /\ pc = "mie_returned"
    /\ args.num_n = 2
    /\ IsFinite(a[1])
    /\ a[2] = NonFinite
    /\ IsFinite(a[3])
    /\ a[3] # <<0, 0>>
    /\ ret[3] = NonFiniteReal

\* C17 as claimed: the final check passes only when each numerical
\* efficiency differs from its analytical value by less than 1% of the
\* modulus of the analytical value, whatever its sign (numerical values in
\* units of 1 / ErrTolInv).
C17_PassOnlyWithinOnePercent ==
    pc = "demo_passed" =>
        /\ AbsReal(ErrTolInv * analyt.q_abs_analyt - fenics.q_abs_fenics)
                < AbsReal(analyt.q_abs_analyt)
        /\ AbsReal(ErrTolInv * analyt.q_sca_analyt - fenics.q_sca_fenics)
                < AbsReal(analyt.q_sca_analyt)
        /\ AbsReal(ErrTolInv * analyt.q_ext_analyt - fenics.q_ext_fenics)
                < AbsReal(analyt.q_ext_analyt)

--------------------------------------------------------------------------
(* Properties of verify_mode.                                              *)

\* |f| <= threshold for a complex residual f
WithinThreshold(f, threshold) ==
    threshold >= 0 /\ f[1] * f[1] + f[2] * f[2] <= threshold * threshold

\* C2: verify_mode returns true if and only if the TM_x residual or the
\* TE_x residual is within the threshold of zero.
C2_TrueIffEitherResidualSmall ==
    vm.called =>
        (vm.result <=> (\/ WithinThreshold(vm.f_tm, vm.threshold)
                        \/ WithinThreshold(vm.f_te, vm.threshold)))

C2_Witness ==
    /\ vm.called
    /\ vm.result
    /\ WithinThreshold(vm.f_te, vm.threshold)
    /\ ~WithinThreshold(vm.f_tm, vm.threshold)
    /\ vm.f_te # <<0, 0>>

\* C7: the squared transverse wavenumbers are
\*   kx_d^2 = k0^2 eps_d - ky^2 - kz^2,  kx_v^2 = kx_d^2 - k0^2 (eps_d - eps_v),
\* so that kx_d^2 + ky^2 + kz^2 = k0^2 eps_d and
\* kx_v^2 + ky^2 + kz^2 = k0^2 eps_v both hold (k0 = 2 pi / lmbd0).
C7_SeparationRelations ==
    vm.called =>
        LET k0sq == vm.k0 * vm.k0
            kysq == vm.ky * vm.ky
            kzsq == CMul(vm.kz, vm.kz)
            kxdsq == CMul(vm.kx_d, vm.kx_d)
            kxvsq == CMul(vm.kx_v, vm.kx_v)
        IN  /\ vm.k0 * vm.lmbd0 = 2 * PiU
            /\ kxdsq = CSub(<<k0sq * vm.eps_d - kysq, 0>>, kzsq)
            /\ kxvsq = CSub(kxdsq, <<k0sq * (vm.eps_d - vm.eps_v), 0>>)
            /\ CAdd(CAdd(kxdsq, <<kysq, 0>>), kzsq) = <<k0sq * vm.eps_d, 0>>
            /\ CAdd(CAdd(kxvsq, <<kysq, 0>>), kzsq) = <<k0sq * vm.eps_v, 0>>

C7_Witness ==
    /\ vm.called
    /\ vm.eps_d # vm.eps_v
    /\ vm.kz # <<0, 0>>
    /\ vm.kx_d # <<0, 0>>
    /\ vm.kx_v # <<0, 0>>
    /\ vm.kx_v # vm.kx_d

\* C8: every verify_mode call evaluates the conditions for the transverse
\* mode index n = 1, that is with ky = pi / w, whatever kz and the other
\* arguments are.
C8_ModeIndexOne ==
    vm.called =>
        /\ vm.n = 1
        /\ vm.ky * vm.w = PiU

C8_Witness ==
    /\ vm.called
    /\ vm.w = 2
    /\ vm.kz # <<0, 0>>
    /\ vm.eps_d > 1

ArgNames == {"kz", "w", "h", "d", "lmbd0", "eps_d", "eps_v", "threshold"}

\* C12: verify_mode is a pure oracle: a call is one evaluation, which ends
\* in the return or in an exception; it leaves its arguments (kz among them)
\* and all module-level state unchanged, the residuals it returns on are the
\* two conditions at the transverse wavenumbers of the kz the caller passed,
\* and nothing is evaluated again after the return.
C12_PureOracle ==
    /\ [][pc = "vm_called" =>
            /\ pc' \in {"vm_returned", "vm_raised"}
            /\ mieVars' = mieVars
            /\ \A f \in ArgNames : vm'[f] = vm[f]
            /\ pc' = "vm_returned" =>
                /\ vm'.called
                /\ CMul(vm'.kx_d, vm'.kx_d)
                     = KxDTargetSq(vm'.k0, vm'.ky, vm.kz, vm.eps_d)
                /\ vm'.f_tm = TMx_condition(vm.lib, vm'.kx_d, vm'.kx_v,
                                            vm.eps_d, vm.eps_v, vm.d, vm.h)
                /\ vm'.f_te = TEx_condition(vm.lib, vm'.kx_d, vm'.kx_v, vm.d, vm.h)]_vars
    /\ [][vm.called => vm' = vm]_vars

C12_Witness ==
    /\ pc = "vm_returned"
    /\ vm.called
    /\ vm.kz[1] # 0
    /\ vm.kz[2] # 0
    /\ vm.result

\* C14 as claimed: a call with wavelength = 0, with width = 0 or with
\* dielectric height >= waveguide height raises nothing, it completes and
\* returns a boolean.
C14_InvalidGeometryCompletes ==
    (/\ pc \in {"vm_returned", "vm_raised"}
     /\ (vm.lmbd0 = 0 \/ vm.w = 0 \/ vm.d >= vm.h)) =>
        /\ pc = "vm_returned"
        /\ exc = ""
        /\ vm.called
        /\ vm.result \in BOOLEAN

\* C14, amended: a call with dielectric height >= waveguide height (and
\* nonzero wavelength and width) raises nothing, it completes and returns a
\* boolean, also when a residual is non-finite; a call with wavelength = 0
\* or width = 0, given as Python numbers, raises ZeroDivisionError (at
\* k0 = 2 pi / lmbd0, or at ky = n pi / w) and returns nothing.
C14_DegenerateHeightCompletes ==
    pc \in {"vm_returned", "vm_raised"} =>
        /\ (vm.lmbd0 = 0 \/ vm.w = 0) =>
                /\ pc = "vm_raised"
                /\ exc = "ZeroDivisionError"
                /\ ~vm.called
        /\ (vm.lmbd0 # 0 /\ vm.w # 0 /\ vm.d >= vm.h) =>
                /\ pc = "vm_returned"
                /\ exc = ""
                /\ vm.called
                /\ vm.result \in BOOLEAN

C14_Witness ==
    /\ pc = "vm_returned"
    /\ vm.d = vm.h
    /\ vm.kz # <<0, 0>>
    /\ ~IsFinite(vm.f_te)
    /\ vm.result

\* C18: each residual counts as satisfied exactly when its complex modulus
\* is at most the threshold, the boundary included: |f|^2 <= threshold^2,
\* with no relative term, the reference value being 0.
C18_AbsoluteModulusTest ==
    vm.called =>
        /\ vm.close_tm <=>
                (vm.threshold >= 0 /\ AbsSq(vm.f_tm) <= vm.threshold * vm.threshold)
        /\ vm.close_te <=>
                (vm.threshold >= 0 /\ AbsSq(vm.f_te) <= vm.threshold * vm.threshold)

\* both parts of the TM residual are within the threshold, its modulus is not
C18_Witness ==
    /\ vm.called
    /\ vm.threshold = 2
    /\ ~vm.close_tm
    /\ AbsSq(vm.f_tm) \in {5, 8}
    /\ vm.close_te
    /\ vm.result

\* C23: a non-finite residual never counts as satisfied: with one residual
\* non-finite verify_mode returns true exactly when the other one is within
\* the threshold, and with both non-finite it returns false.
C23_NonFiniteNeverSatisfied ==
    vm.called =>
        /\ ~IsFinite(vm.f_tm) => ~vm.close_tm
        /\ ~IsFinite(vm.f_te) => ~vm.close_te
        /\ (~IsFinite(vm.f_te) /\ IsFinite(vm.f_tm)) =>
                (vm.result <=> WithinThreshold(vm.f_tm, vm.threshold))
        /\ (~IsFinite(vm.f_tm) /\ IsFinite(vm.f_te)) =>
                (vm.result <=> WithinThreshold(vm.f_te, vm.threshold))
        /\ (~IsFinite(vm.f_tm) /\ ~IsFinite(vm.f_te)) => ~vm.result

\* both residuals non-finite: eps_d = 0 and a zero tangent
C23_Witness ==
    /\ pc = "vm_returned"
    /\ vm.called
    /\ ~IsFinite(vm.f_tm)
    /\ ~IsFinite(vm.f_te)
    /\ vm.threshold > 0
    /\ ~vm.result

\* C24: verify_mode depends on kz through kz^2 only: the call with -kz, all
\* other arguments the same, computes the same transverse wavenumbers and
\* residuals and returns the same boolean.
C24_EvenInKz ==
    pc = "vm_negated" =>
        /\ vm2.kz = CScale(vm.kz, -1)
        /\ \A f \in ArgNames \ {"kz"} : vm2[f] = vm[f]
        /\ vm2.kx_d = vm.kx_d
        /\ vm2.kx_v = vm.kx_v
        /\ vm2.f_tm = vm.f_tm
        /\ vm2.f_te = vm.f_te
        /\ vm2.result = vm.result

C24_Witness ==
    /\ pc = "vm_negated"
    /\ vm.kz[1] > 0
    /\ vm.kz[2] # 0
    /\ vm2.kz[1] < 0
    /\ vm.result
    /\ vm2.result

\* C25: the residuals are even in each transverse wavenumber: with -kx_d
\* for kx_d and/or -kx_v for kx_v the TE and the TM residual, and the
\* boolean, are the ones verify_mode computed (np.tan taken as odd).
C25_RootSignIrrelevant ==
    pc = "vm_flipped" =>
        /\ vm2.kx_d \in {vm.kx_d, CScale(vm.kx_d, -1)}
        /\ vm2.kx_v \in {vm.kx_v, CScale(vm.kx_v, -1)}
        /\ vm2.f_tm = vm.f_tm
        /\ vm2.f_te = vm.f_te
        /\ vm2.result = vm.result

C25_Witness ==
    /\ pc = "vm_flipped"
    /\ vm.kx_d # <<0, 0>>
    /\ vm.kx_v # <<0, 0>>
    /\ vm2.kx_d = CScale(vm.kx_d, -1)
    /\ vm2.kx_v = vm.kx_v
    /\ vm.f_tm # <<0, 0>>
    /\ vm.f_te # <<0, 0>>
    /\ vm.result

--------------------------------------------------------------------------
(* Properties of the post-processing loop of the waveguide demo.           *)

\* the files of the eigenpair i
FilesOf(i) == <<<<"Et", i>>, <<"Ez", i>>>>

\* some file of the eigenpair i has been written
HasFile(i) == \E k \in DOMAIN sols : sols[k][2] = i

\* C21: the files Et_i and Ez_i are written only once verify_mode has
\* returned true for the kz of eigenpair i; when it returns false the assert
\* ends the run there, with no file of that eigenpair and none of any
\* eigenpair later in the sorted order.
C21_WrittenOnlyAfterVerified ==
    /\ [][sols' # sols =>
            /\ pc = "vm_returned"
            /\ vm.called
            /\ vm.result
            /\ vm.kz = vals[it][2]
            /\ sols' = sols \o FilesOf(vals[it][1])]_vars
    /\ [][(pc = "vm_returned" /\ ~vm.result) =>
            /\ pc' = "wg_aborted"
            /\ exc' = "AssertionError"
            /\ sols' = sols]_vars
    /\ [](pc = "wg_aborted" =>
            \A k \in it..Len(vals) : ~HasFile(vals[k][1]))
    /\ [][pc = "wg_aborted" => FALSE]_vars

C21_Witness ==
    /\ pc = "wg_aborted"
    /\ Len(vals) = 3
    /\ it = 2
    /\ sols = FilesOf(vals[1][1])
    /\ Accepted(eigs[vals[3][1] + 1].error, vals[3][2])

\* the eigenpairs the loop has to accept: converged, relative error below
\* tol, imaginary part of kz within tol
Wanted ==
    {i \in 0..(Len(eigs) - 1) :
        /\ eigs[i + 1].error < Tol
        /\ AbsReal(Candidate(eigs[i + 1].eigenvalue)[2]) <= TolOnGrid}

\* C22: when the loop has completed without a failed assert, kz_list holds
\* exactly the kz = sqrt(-eigenvalue_i) of the eigenpairs with error < tol
\* and |Im kz| <= tol, each once, in non-decreasing order of Re kz, and
\* verify_mode is called and files are written for no other candidate.
C22_AcceptedListSorted ==
    /\ pc = "wg_done" =>
        /\ Len(kz_list) = Cardinality(Wanted)
        /\ Len(sols) = 2 * Len(kz_list)
        /\ \A j \in DOMAIN kz_list :
            LET i == sols[2 * j][2]
            IN  /\ i \in Wanted
                /\ SubSeq(sols, 2 * j - 1, 2 * j) = FilesOf(i)
                /\ kz_list[j] = Candidate(eigs[i + 1].eigenvalue)
        /\ {sols[k][2] : k \in DOMAIN sols} = Wanted
        /\ \A j \in DOMAIN kz_list : \A k \in DOMAIN kz_list :
                j < k => kz_list[j][1] <= kz_list[k][1]
    /\ pc = "vm_called" =>
        /\ it \in DOMAIN vals
        /\ vals[it][1] \in Wanted
        /\ vm.kz = vals[it][2]

\* two accepted candidates in the other order than the solver's, and a
\* rejected evanescent one
C22_Witness ==
    /\ pc = "wg_done"
    /\ Len(eigs) = 3
    /\ Len(kz_list) = 2
    /\ sols[2][2] > sols[4][2]
    /\ kz_list[1][1] < kz_list[2][1]
    /\ \E k \in DOMAIN vals : vals[k][2][1] = 0 /\ vals[k][2][2] < 0

--------------------------------------------------------------------------
(* Properties of the wire demos under MPI.                                 *)

\* the local contributions of all ranks to a reduction, once bound
AllBound(field) == \A o \in Ranks : ranks[o][field] # Unset

\* the sum of what the ranks integrated locally
GlobalSum(field) == SumOver([o \in Ranks |-> ranks[o][field]], Ranks)

\* the rank has bound the result of calculate_analytical_efficiencies
HasAnalyt(r) == DOMAIN ranks[r].analyt # {}

\* C27: a rank that has left an allreduce holds the sum of the local
\* contributions of all ranks, every rank that has computed the analytical
\* efficiencies holds the same ones, and the ranks that have evaluated the
\* asserts got the same outcome and exit status, whatever the interleaving;
\* while one rank has evaluated them no other rank is left before the
\* second allreduce, so none proceeds on different values.
C27_SameOutcomeOnEveryRank ==
    \A r \in Ranks :
        /\ ranks[r].q_abs_fenics # Unset =>
              /\ AllBound("q_abs_fenics_proc")
              /\ ranks[r].q_abs_fenics = GlobalSum("q_abs_fenics_proc")
        /\ ranks[r].q_sca_fenics # Unset =>
              /\ AllBound("q_sca_fenics_proc")
              /\ ranks[r].q_sca_fenics = GlobalSum("q_sca_fenics_proc")
        /\ \A o \in Ranks :
              /\ (HasAnalyt(r) /\ HasAnalyt(o)) =>
                    ranks[r].analyt = ranks[o].analyt
              /\ ranks[r].failed # Unset =>
                    /\ ranks[o].pc \in {"allreduce_sca", "exited"}
                    /\ ranks[o].q_abs_fenics = ranks[r].q_abs_fenics
                    /\ ranks[o].failed # Unset =>
                          /\ ranks[o].failed = ranks[r].failed
                          /\ ranks[o].status = ranks[r].status
                          /\ ranks[o].q_sca_fenics = ranks[r].q_sca_fenics

\* every rank has passed the three asserts, on local contributions that
\* differ between two ranks
C27_Witness ==
    /\ \A r \in Ranks : ranks[r].pc = "exited" /\ ranks[r].failed = 0
    /\ \E r, o \in Ranks :
          ranks[r].q_abs_fenics_proc # ranks[o].q_abs_fenics_proc

\* C28: on return of generate_mesh_wire or generate_mesh_sphere_axis gmsh
\* is initialised on the rank; rank 0 has created the geometry, the
\* physical groups and the mesh and returned the gmsh model, every other
\* rank has made no call on the model and returned None.
C28_GeometryOnRankZeroOnly ==
    \A r \in Ranks :
        env.demo \in {"sbc", "axis"} /\ ranks[r].gmsh.returned # "" =>
            /\ ranks[r].pc = "meshed" => ranks[r].gmsh.initialized
            /\ r = 0 =>
                  /\ ranks[r].gmsh.returned = "gmsh.model"
                  /\ \E i, j, k \in DOMAIN ranks[r].gmsh.built :
                        /\ i < j /\ j < k
                        /\ ranks[r].gmsh.built[i] = "occ geometry"
                        /\ ranks[r].gmsh.built[j] \in
                               {"addPhysicalGroup x3", "addPhysicalGroup x4"}
                        /\ ranks[r].gmsh.built[k] = "mesh.generate(2)"
            /\ r # 0 =>
                  /\ ranks[r].gmsh.returned = "None"
                  /\ ranks[r].gmsh.built = <<>>

\* generate_mesh_sphere_axis has returned on every rank
C28_Witness ==
    /\ env.demo = "axis"
    /\ \A r \in Ranks : ranks[r].pc = "meshed" /\ ranks[r].gmsh.returned # ""

\* PETSc was built for real numbers
RealMode == env.scalar_type \in {"float32", "float64"}

\* C29: with a real PETSc scalar type no rank of a wire demo gets past the
\* guard: gmsh is never initialised, nothing is solved, no collective call
\* is entered, no assert is evaluated; a rank that has ended has exit
\* status 0 and printed a notice last: the complex-mode notice when gmsh is
\* installed (after the pyvista notice of the import cell when pyvista is
\* not), the gmsh notice alone otherwise.
C29_RealModeExitsFirst ==
    RealMode /\ env.demo \in WireDemos =>
        /\ comm = IdleComm
        /\ \A r \in Ranks :
              /\ ranks[r].pc \in {"start", "imported", "exited"}
              /\ ranks[r].gmsh = NoGmsh
              /\ ~ranks[r].solved
              /\ ranks[r].failed = Unset
              /\ ranks[r].pc = "exited" =>
                    /\ ranks[r].status = 0
                    /\ ranks[r].out =
                          IF ~env.have_gmsh
                          THEN <<"This demo requires gmsh to be installed">>
                          ELSE IF env.have_pyvista
                          THEN <<"Demo should only be executed with DOLFINx complex mode">>
                          ELSE <<"pyvista and pyvistaqt are required to visualise the solution",
                                 "Demo should only be executed with DOLFINx complex mode">>

\* every rank of a wire demo has left at the guard
C29_Witness ==
    /\ RealMode /\ env.demo \in WireDemos /\ env.have_gmsh
    /\ \A r \in Ranks : ranks[r].pc = "exited"

==========================================================================
